---- MODULE Spec2Model ----
(***************************************************************************)
(* Model of the debug-console store (stores/useDebugConsole) of            *)
(* Antigravity-Manager: the bounded log buffer, the push-channel           *)
(* subscription handle and the asynchronous enable / disable /             *)
(* checkEnabled / loadLogs / clearLogs / startListening operations.        *)
(*                                                                         *)
(* JavaScript runs one task at a time: an async operation runs without     *)
(* interruption from one `await` to the next.  Each action below is one    *)
(* such uninterrupted piece: the synchronous start of a call up to its     *)
(* first await, or the arrival of one backend response together with the   *)
(* continuation that runs up to the next await.                            *)
(*                                                                         *)
(* The second part models the command gateway (utils/request): request()   *)
(* in native mode and in remote (HTTP) mode, with the registry lookup, the *)
(* construction of the HTTP request, the normalisation of the response and *)
(* the debounced 'abv-unauthorized' notification.                          *)
(*                                                                         *)
(* The third part is the view state of the store (isOpen, filter,          *)
(* searchTerm, autoScroll) and the list the console view (DebugConsole)    *)
(* computes from the buffer when it renders.                               *)
(***************************************************************************)
EXTENDS Integers, Sequences, FiniteSets, TLC

\* ------------------------------------------------------------------ bounds
\* Capacity of the log buffer.  The source sets 5000 (MAX_LOGS); the model
\* checks the same code with a small capacity.
MAX_LOGS == 2
\* Number of call slots: operations that can be in flight at the same time.
NProcs == 2
\* Number of channel registrations that can be created in one run.
MaxReg == 2
\* Number of pushed events that can be in flight on the channel.
MaxChan == 1
\* Number of log records the backend produces in one run (their ids).
NRecords == 3

Procs == 1..NProcs
Records == 1..NRecords
Regs == 1..MaxReg

\* unlistenFn: null
NoHandle == 0

VARIABLES
    isEnabled,      \* store: isEnabled
    logs,           \* store: logs
    unlistenFn,     \* store: unlistenFn (a registration id, or NoHandle)
    pc,             \* per call slot: the operation it runs and the await it
                    \*   is suspended on
    err,            \* per call slot: console.error was called by its latest
                    \*   operation
    rejected,       \* per call slot: its latest operation ended by throwing
                    \*   to its caller (the promise it returned was rejected)
    live,           \* channel: registrations that are live
    nextReg,        \* channel: id of the next registration
    unlistenCalls,  \* channel: how often each registration's unlisten ran
    chan,           \* channel: pushed events in flight, oldest first
    bEnabled,       \* backend: the enabled flag
    bLogs,          \* backend: the log history (the snapshot it returns)
    nextId,         \* backend: id of the next log record
    pre,            \* history: the store when the latest call started
    prevOp,         \* history: the call that ended before the latest started
    quiet,          \* history: since the latest call started, no addLog ran
    base,           \* history: the buffer as last set by loadLogs / clearLogs
    delivered,      \* history: records the channel delivered since then
    oneSub,         \* history: each of them reached exactly one listener
                    \*          and nothing else appended to the buffer
    cleared         \* history: the records the buffer held when the latest
                    \*          successful clearLogs emptied it

VARIABLES
    isOpen,         \* store: isOpen
    filter,         \* store: filter (the levels shown, an array)
    searchTerm,     \* store: searchTerm
    autoScroll,     \* store: autoScroll
    filteredLogs    \* console view: the list computed by its latest render

VARIABLES
    isTauri,            \* request.ts: the environment probe (native mode)
    apiKey,             \* localStorage item 'abv_admin_api_key'
    now,                \* the clock: Date.now()
    lastAuthErrorTime,  \* window._lastAuthErrorTime
    events,             \* the 'abv-unauthorized' events dispatched: their times
    rq,                 \* per request slot: the request() call it runs
    authLog             \* history: the times a 401 response was handled

storeVars == <<isEnabled, logs, unlistenFn>>
chanVars == <<live, nextReg, unlistenCalls, chan>>
backVars == <<bEnabled, bLogs, nextId>>
histVars == <<pre, prevOp, quiet, base, delivered, oneSub, cleared>>
viewVars == <<isOpen, filter, searchTerm, autoScroll>>
reqVars == <<isTauri, apiKey, now, lastAuthErrorTime, events, rq, authLog>>
vars == <<isEnabled, logs, unlistenFn, pc, err, rejected, live, nextReg,
          unlistenCalls, chan, bEnabled, bLogs, nextId, pre, prevOp, quiet, base, delivered,
          oneSub, cleared, isOpen, filter, searchTerm, autoScroll,
          filteredLogs, isTauri, apiKey, now, lastAuthErrorTime, events,
          rq, authLog>>

\* ---------------------------------------------------------------- helpers
\* The last n elements of s (Array.prototype.slice(-n), n > 0).
LastN(s, n) == IF Len(s) > n THEN SubSeq(s, Len(s) - n + 1, Len(s)) ELSE s

\* addLog's state update: append, then keep only the last MAX_LOGS entries.
addLogKeepFirst(ls, log) ==
    LET newLogs == Append(ls, log)
    IN IF Len(newLogs) > MAX_LOGS THEN SubSeq(newLogs, 1, MAX_LOGS) ELSE newLogs
addLogDedup(ls, log) ==
    LET newLogs == IF \E i \in 1..Len(ls) : ls[i] = log THEN ls ELSE Append(ls, log)
    IN IF Len(newLogs) > MAX_LOGS
         THEN SubSeq(newLogs, Len(newLogs) - MAX_LOGS + 1, Len(newLogs))
         ELSE newLogs
addLog(ls, log) ==
    LET newLogs == Append(ls, log)
    IN IF Len(newLogs) > MAX_LOGS
         THEN SubSeq(newLogs, Len(newLogs) - MAX_LOGS + 1, Len(newLogs))
         ELSE newLogs

\* addLog called n times with the same record (one call per listener).
RECURSIVE addLogTimes(_, _, _)
addLogTimes(ls, log, n) ==
    IF n = 0 THEN ls ELSE addLogTimes(addLog(ls, log), log, n - 1)

\* The position of a call slot: the operation it runs and the await it is
\* suspended on; IdlePc when it is not in a call.
At(o, a) == [op |-> o, at |-> a]
IdlePc == At("none", "idle")
Idle(p) == pc[p] = IdlePc

\* ------------------------------------------------- the gateway: bounds
\* Number of request slots: request() calls that can be in flight together.
NReqs == 2
\* The clock advances in steps of Tick ms, MaxTicks times, from StartTime
\* (Date.now() is far beyond the debounce window when the page runs).
Tick == 500
MaxTicks == 6
StartTime == 2500
\* Number of 401 responses handled in one run.
MaxAuth == 3

ReqSlots == 1..NReqs

\* `now - lastAuthError > 2000`
AuthDebounceMs == 2000
\* `(window as any)._lastAuthErrorTime || 0`: never set reads as 0.
LastAuthErrorUnset == 0

\* ------------------------------------------------- the gateway: values
\* A JavaScript value as far as request() looks at it: its type t, its
\* text s (strings, numbers, error messages) and its own properties f, a
\* sequence of <<name, value>> pairs.
Val(t, s, f) == [t |-> t, s |-> s, f |-> f]
Undefined == Val("undefined", "", <<>>)
JNull == Val("null", "", <<>>)
JStr(s) == Val("string", s, <<>>)
JNum(s) == Val("number", s, <<>>)
JObj(f) == Val("object", "", f)
JError(m) == Val("Error", m, <<>>)
JTypeError(m) == Val("TypeError", m, <<>>)

\* v is truthy.
Truthy(v) ==
    CASE v.t \in {"undefined", "null"} -> FALSE
      [] v.t = "string" -> v.s # ""
      [] v.t = "number" -> v.s # "0"
      [] OTHER -> TRUE

\* v has an own property called name (v is an object).
HasProp(v, name) == \E i \in 1..Len(v.f) : v.f[i][1] = name
\* v[name], for v neither null nor undefined: the property's value, or
\* undefined (a string or a number has no such property).
Get(v, name) ==
    IF HasProp(v, name)
      THEN v.f[CHOOSE i \in 1..Len(v.f) : v.f[i][1] = name][2]
      ELSE Undefined

\* The response bodies the remote side sends: nothing, plain text, and
\* JSON texts of the kinds request() tells apart.
BodyEmpty == ""
BodyPlain == "Bad Gateway"
BodyNull == "null"
BodyString == "\"ok\""
BodyObject == "{\"id\":1}"
BodyError == "{\"error\":\"denied\"}"
BodyErrorEmpty == "{\"error\":\"\"}"
Bodies == {BodyEmpty, BodyPlain, BodyNull, BodyString, BodyObject, BodyError,
           BodyErrorEmpty}

\* JSON.parse(text) (and response.json()): the value, or a SyntaxError.
JSONparse(text) ==
    CASE text = BodyNull -> [ok |-> TRUE, val |-> JNull]
      [] text = BodyString -> [ok |-> TRUE, val |-> JStr("ok")]
      [] text = BodyObject -> [ok |-> TRUE, val |-> JObj(<< <<"id", JNum("1")>> >>)]
      [] text = BodyError ->
           [ok |-> TRUE, val |-> JObj(<< <<"error", JStr("denied")>> >>)]
      [] text = BodyErrorEmpty ->
           [ok |-> TRUE, val |-> JObj(<< <<"error", JStr("")>> >>)]
      [] OTHER -> [ok |-> FALSE, val |-> Undefined]

\* response.ok
ResponseOk(status) == status \in 200..299
Statuses == {200, 204, 401, 500}

\* The result of a call: nothing yet, a returned value, a thrown value.
NoOutcome == [kind |-> "none", val |-> Undefined]
Returns(v) == [kind |-> "return", val |-> v]
Throws(v) == [kind |-> "throw", val |-> v]

\* ------------------------------------------------- the gateway: strings
\* A URL, an argument key or an argument's text is a sequence of pieces:
\* a piece is one reserved character ("/", ":", "?", "&", "=", " ") or a
\* run of unreserved characters, so that includes / replace / encode on
\* the sequence do what the string operations do on the characters.

\* String.prototype.includes
Includes(s, sub) ==
    \E i \in 1..(Len(s) - Len(sub) + 1) : SubSeq(s, i, i + Len(sub) - 1) = sub
\* String.prototype.replace(sub, r) with a string pattern: the first
\* occurrence only.
ReplaceFirst(s, sub, r) ==
    IF ~Includes(s, sub)
      THEN s
      ELSE LET i == CHOOSE j \in 1..(Len(s) - Len(sub) + 1) :
                       /\ SubSeq(s, j, j + Len(sub) - 1) = sub
                       /\ \A k \in 1..(j - 1) : SubSeq(s, k, k + Len(sub) - 1) # sub
           IN SubSeq(s, 1, i - 1) \o r \o SubSeq(s, i + Len(sub), Len(s))

\* encodeURIComponent: reserved characters are percent-encoded.
EncodeChar(c) ==
    CASE c = "/" -> "%2F"
      [] c = ":" -> "%3A"
      [] c = "?" -> "%3F"
      [] c = "&" -> "%26"
      [] c = "=" -> "%3D"
      [] c = " " -> "%20"
      [] OTHER -> c
encodeURIComponent(s) == [i \in 1..Len(s) |-> EncodeChar(s[i])]
\* URLSearchParams.toString() encodes names and values as a form does: as
\* above, but a space becomes "+".
FormEncodeChar(c) == IF c = " " THEN "+" ELSE EncodeChar(c)
FormEncode(s) == [i \in 1..Len(s) |-> FormEncodeChar(s[i])]

\* An argument's value: a string (its pieces), null or undefined.
AStr(s) == [t |-> "string", s |-> s]
ANull == [t |-> "null", s |-> <<>>]
AUndefined == [t |-> "undefined", s |-> <<>>]
\* String(value)
StringOf(v) ==
    CASE v.t = "null" -> <<"null">>
      [] v.t = "undefined" -> <<"undefined">>
      [] OTHER -> v.s

\* args: absent (undefined), or an object, its entries in key order as
\* <<key, value>> pairs.
NoArgs == [given |-> FALSE, kv |-> <<>>]
Args(kv) == [given |-> TRUE, kv |-> kv]

\* Lines 161-168: for each key of args in order, replace `:key` in the url
\* (if the url includes it) by the encoded text of args[key].
RECURSIVE SubstituteFrom(_, _, _)
SubstituteFrom(url, kv, i) ==
    IF i > Len(kv)
      THEN url
      ELSE LET placeholder == <<":">> \o kv[i][1]
               value == encodeURIComponent(StringOf(kv[i][2]))
           IN SubstituteFrom(IF Includes(url, placeholder)
                               THEN ReplaceFirst(url, placeholder, value)
                               ELSE url,
                             kv, i + 1)
SubstitutePath(url, args) ==
    IF args.given THEN SubstituteFrom(url, args.kv, 1) ELSE url

\* Lines 184-190: the query string of the entries whose value is neither
\* undefined nor null, `name=value` joined by `&`.
RECURSIVE QueryFromKeepNull(_, _)
QueryFromKeepNull(kv, i) ==
    IF i > Len(kv)
      THEN <<>>
      ELSE LET rest == QueryFromKeepNull(kv, i + 1)
           IN FormEncode(kv[i][1]) \o <<"=">>
                \o FormEncode(StringOf(kv[i][2]))
                \o (IF rest = <<>> THEN <<>> ELSE <<"&">> \o rest)
RECURSIVE QueryFrom(_, _)
QueryFrom(kv, i) ==
    IF i > Len(kv)
      THEN <<>>
      ELSE LET rest == QueryFrom(kv, i + 1)
           IN IF kv[i][2].t \in {"undefined", "null"}
                THEN rest
                ELSE FormEncode(kv[i][1]) \o <<"=">>
                       \o FormEncode(StringOf(kv[i][2]))
                       \o (IF rest = <<>> THEN <<>> ELSE <<"&">> \o rest)
QueryString(args) == QueryFrom(args.kv, 1)

\* JSON.stringify(args): the entries of args, those with an undefined value
\* left out.
NoBody == [present |-> FALSE, kv |-> <<>>]
JSONstringify(args) ==
    [present |-> TRUE,
     kv |-> SelectSeq(args.kv, LAMBDA e : e[2].t # "undefined")]

\* Lines 172-181: the headers.
HeadersBearerOnly(key) ==
    {<<"Content-Type", <<"application/json">>>>}
      \cup (IF Truthy(key)
              THEN {<<"Authorization", <<"Bearer ", key.s>>>>}
              ELSE {})
Headers(key) ==
    {<<"Content-Type", <<"application/json">>>>}
      \cup (IF Truthy(key)
              THEN {<<"Authorization", <<"Bearer ", key.s>>>>,
                    <<"x-api-key", <<key.s>>>>}
              ELSE {})
\* localStorage.getItem('abv_admin_api_key'): null, or the stored string.
ApiKeys == {JNull, JStr(""), JStr("secret")}

\* ------------------------------------------------- the gateway: registry
AccountsUrl == <<"/", "api", "/", "account", "s">>
AccountUrl == AccountsUrl \o <<"/", ":", "account", "Id">>
\* COMMAND_MAPPING: these entries of it, one of each shape (each verb, with
\* no, one and two placeholders).
COMMAND_MAPPING ==
    "list_accounts" :> [url |-> AccountsUrl, method |-> "GET"]
    @@ "switch_account" :>
         [url |-> AccountsUrl \o <<"/", "switch">>, method |-> "POST"]
    @@ "delete_account" :> [url |-> AccountUrl, method |-> "DELETE"]
    @@ "fetch_account_quota" :>
         [url |-> AccountUrl \o <<"/", "quota">>, method |-> "GET"]
    @@ "toggle_proxy_status" :>
         [url |-> AccountUrl \o <<"/", "toggle-proxy">>, method |-> "POST"]
    @@ "delete_device_version" :>
         [url |-> AccountUrl \o <<"/", "device-versions", "/", ":", "version", "Id">>,
          method |-> "DELETE"]
    @@ "get_proxy_status" :>
         [url |-> <<"/", "api", "/", "proxy", "/", "status">>, method |-> "GET"]

\* COMMAND_MAPPING is a plain object: a name it does not hold itself is
\* looked up in Object.prototype, whose members are functions (truthy, with
\* no url and no method).
ObjectPrototype == {"toString", "constructor"}
\* COMMAND_MAPPING[cmd]: an entry of the registry, a member of
\* Object.prototype, or undefined.
MappingOf(cmd) ==
    IF cmd \in DOMAIN COMMAND_MAPPING
      THEN [found |-> "own", url |-> COMMAND_MAPPING[cmd].url,
            method |-> COMMAND_MAPPING[cmd].method]
      ELSE IF cmd \in ObjectPrototype
             THEN [found |-> "inherited", url |-> <<"undefined">>,
                   method |-> "undefined"]
             ELSE [found |-> "none", url |-> <<>>, method |-> "undefined"]

\* The command names request() is called with: the registry's, one that is
\* nowhere, and the names of Object.prototype members.
Cmds == DOMAIN COMMAND_MAPPING \cup {"no_such_command"} \cup ObjectPrototype

KeyAccountId == <<"account", "Id">>
KeyAccount == <<"account">>
KeyVersionId == <<"version", "Id">>
KeyQ == <<"q">>
\* The args request() is called with.
ArgSets ==
    {NoArgs,
     Args(<<>>),
     Args(<< <<KeyAccountId, AStr(<<"42">>)>> >>),
     Args(<< <<KeyAccountId, AStr(<<"a", "/", "b">>)>> >>),
     Args(<< <<KeyAccount, AStr(<<"x">>)>>, <<KeyAccountId, AStr(<<"42">>)>> >>),
     Args(<< <<KeyAccountId, AStr(<<"42">>)>>, <<KeyVersionId, AStr(<<"7">>)>> >>),
     Args(<< <<KeyVersionId, AStr(<<"7">>)>> >>),
     Args(<< <<KeyAccountId, ANull>> >>),
     Args(<< <<KeyAccountId, AUndefined>>, <<KeyQ, AStr(<<"a", " ", "b">>)>> >>)}

\* One invocation of a transport: an HTTP request handed to fetch, or a
\* native call handed to invoke.
Http(url, method, headers, body) ==
    [kind |-> "http", cmd |-> "", args |-> NoArgs, url |-> url,
     method |-> method, headers |-> headers, body |-> body]
Native(cmd, args) ==
    [kind |-> "native", cmd |-> cmd, args |-> args, url |-> <<>>,
     method |-> "", headers |-> {}, body |-> NoBody]

\* Lines 159-194: the HTTP request request() builds for a mapping and args.
\* fetch sends a request without a method as GET.
BuildRequestDropConsumed(m, args) ==
    LET path == SubstitutePath(m.url, args)
        left == [args EXCEPT !.kv =
                   SelectSeq(args.kv, LAMBDA e : ~Includes(m.url, <<":">> \o e[1]))]
        qs == QueryString(left)
        url == IF m.method \in {"GET", "DELETE"} /\ args.given /\ qs # <<>>
                 THEN path \o <<"?">> \o qs
                 ELSE path
        body == IF m.method = "POST" /\ args.given
                  THEN JSONstringify(left)
                  ELSE NoBody
    IN Http(url, IF m.method = "undefined" THEN "GET" ELSE m.method,
            Headers(apiKey), body)
BuildRequestQueryAlways(m, args) ==
    LET path == SubstitutePath(m.url, args)
        qs == QueryString(args)
        url == IF args.given /\ qs # <<>> THEN path \o <<"?">> \o qs ELSE path
        body == IF m.method = "POST" /\ args.given
                  THEN JSONstringify(args)
                  ELSE NoBody
    IN Http(url, IF m.method = "undefined" THEN "GET" ELSE m.method,
            Headers(apiKey), body)
BuildRequest(m, args) ==
    LET path == SubstitutePath(m.url, args)
        qs == QueryString(args)
        url == IF m.method \in {"GET", "DELETE"} /\ args.given /\ qs # <<>>
                 THEN path \o <<"?">> \o qs
                 ELSE path
        body == IF m.method = "POST" /\ args.given
                  THEN JSONstringify(args)
                  ELSE NoBody
    IN Http(url, IF m.method = "undefined" THEN "GET" ELSE m.method,
            Headers(apiKey), body)

\* A request slot: where the call is suspended (at), what it was called
\* with, the transport invocations it made (wire), the HTTP response it got
\* (resp), how the native call settled (answer) and its outcome.  A slot
\* keeps its last call until the next one starts.
NoResponse == [status |-> 0, body |-> ""]
IdleRequest ==
    [at |-> "idle", cmd |-> "", args |-> NoArgs, wire |-> <<>>,
     resp |-> NoResponse, answer |-> NoOutcome, out |-> NoOutcome]

\* The store as constructed, its environment and the history.
StoreInit ==
    /\ isEnabled = FALSE
    /\ logs = <<>>
    /\ unlistenFn = NoHandle
    /\ pc = [p \in Procs |-> IdlePc]
    /\ err = [p \in Procs |-> FALSE]
    /\ rejected = [p \in Procs |-> FALSE]
    /\ live = {}
    /\ nextReg = 1
    /\ unlistenCalls = [r \in Regs |-> 0]
    /\ chan = <<>>
    /\ bEnabled \in BOOLEAN
    /\ bLogs = <<>>
    /\ nextId = 1
    /\ pre = [op |-> "none", isEnabled |-> FALSE, logs |-> <<>>,
              unlistenFn |-> NoHandle]
    /\ prevOp = [op |-> "none", err |-> FALSE]
    /\ quiet = TRUE
    /\ base = <<>>
    /\ delivered = <<>>
    /\ oneSub = TRUE
    /\ cleared = {}
    /\ isOpen = FALSE
    /\ filter = <<"ERROR", "WARN", "INFO">>
    /\ searchTerm = <<>>
    /\ autoScroll = TRUE
    /\ filteredLogs = <<>>

\* The gateway before any call: no key stored, nothing dispatched.
GatewayInit ==
    /\ apiKey = JNull
    /\ now = StartTime
    /\ lastAuthErrorTime = LastAuthErrorUnset
    /\ events = <<>>
    /\ rq = [q \in ReqSlots |-> IdleRequest]
    /\ authLog = <<>>

Init == StoreInit /\ GatewayInit /\ isTauri = TRUE

\* ------------------------------------------------- pieces of the operations
\* A call starts: the slot leaves "idle" and no error is logged yet.
Begin(p, o, a) ==
    /\ Idle(p)
    /\ pc' = [pc EXCEPT ![p] = At(o, a)]
    /\ err' = [err EXCEPT ![p] = FALSE]
    /\ rejected' = [rejected EXCEPT ![p] = FALSE]

\* The operation suspends on its next await, or returns.
Goto(p, a) ==
    /\ pc' = [pc EXCEPT ![p] = At(pc[p].op, a)]
    /\ UNCHANGED rejected
Return(p) ==
    /\ pc' = [pc EXCEPT ![p] = IdlePc]
    /\ rejected' = [rejected EXCEPT ![p] = FALSE]

\* The catch blocks: console.error(...), nothing else.
LogError(p) == err' = [err EXCEPT ![p] = TRUE]

\* set({ logs }) of loadLogs, given the snapshot the backend returned.
loadLogsUnion(old, snapshot) == old \o snapshot
loadLogsSet(old, snapshot) == snapshot

\* stopListening: release the stored handle, if any, and clear it.
stopListeningKeepHandle ==
    IF unlistenFn # NoHandle
      THEN /\ unlistenCalls' = [unlistenCalls EXCEPT ![unlistenFn] = @ + 1]
           /\ live' = live \ {unlistenFn}
           /\ UNCHANGED unlistenFn
      ELSE UNCHANGED <<unlistenCalls, live, unlistenFn>>
stopListening ==
    IF unlistenFn # NoHandle
      THEN /\ unlistenCalls' = [unlistenCalls EXCEPT ![unlistenFn] = @ + 1]
           /\ live' = live \ {unlistenFn}
           /\ unlistenFn' = NoHandle
      ELSE UNCHANGED <<unlistenCalls, live, unlistenFn>>

\* startListening up to its await: return at once when a handle is stored,
\* else call listen(...) and suspend on it.
startListeningNoGuard(p, o) ==
    /\ pc' = [pc EXCEPT ![p] = At(o, "listen")]
    /\ UNCHANGED rejected
startListeningBegin(p, o) ==
    IF unlistenFn # NoHandle
      THEN Return(p)
      ELSE /\ pc' = [pc EXCEPT ![p] = At(o, "listen")]
           /\ UNCHANGED rejected

\* ------------------------------------------------------------------ enable
enable(p) ==
    /\ Begin(p, "enable", "invoke")
    /\ UNCHANGED <<storeVars, chanVars, backVars>>
    /\ UNCHANGED <<viewVars, filteredLogs>>

\* invoke('enable_debug_console') resolved: set isEnabled, call loadLogs.
enableInvokeOk(p) ==
    /\ pc[p] = At("enable", "invoke")
    /\ bEnabled' = TRUE
    /\ isEnabled' = TRUE
    /\ Goto(p, "load")
    /\ UNCHANGED <<logs, unlistenFn, err, chanVars, bLogs, nextId>>
    /\ UNCHANGED <<viewVars, filteredLogs>>

\* invoke('enable_debug_console') rejected: the catch of enable.
enableInvokeFail(p) ==
    /\ pc[p] = At("enable", "invoke")
    /\ LogError(p)
    /\ Return(p)
    /\ UNCHANGED <<storeVars, chanVars, backVars>>
    /\ UNCHANGED <<viewVars, filteredLogs>>

\* ----------------------------------------------------------------- disable
disable(p) ==
    /\ Begin(p, "disable", "invoke")
    /\ UNCHANGED <<storeVars, chanVars, backVars>>
    /\ UNCHANGED <<viewVars, filteredLogs>>

disableInvokeOk(p) ==
    /\ pc[p] = At("disable", "invoke")
    /\ bEnabled' = FALSE
    /\ stopListening
    /\ isEnabled' = FALSE
    /\ Return(p)
    /\ UNCHANGED <<logs, err, nextReg, chan, bLogs, nextId>>
    /\ UNCHANGED <<viewVars, filteredLogs>>

\* invoke('disable_debug_console') rejected: the catch of disable.
disableInvokeFailReleases(p) ==
    /\ pc[p] = At("disable", "invoke")
    /\ LogError(p)
    /\ stopListening
    /\ isEnabled' = FALSE
    /\ Return(p)
    /\ UNCHANGED <<logs, nextReg, chan, backVars>>
    /\ UNCHANGED <<viewVars, filteredLogs>>
disableInvokeFail(p) ==
    /\ pc[p] = At("disable", "invoke")
    /\ LogError(p)
    /\ Return(p)
    /\ UNCHANGED <<storeVars, chanVars, backVars>>
    /\ UNCHANGED <<viewVars, filteredLogs>>

\* ---------------------------------------------------------------- loadLogs
\* loadLogs is called by enable and checkEnabled, and on its own.
LoadOps == {"enable", "checkEnabled", "loadLogs"}

\* What follows `await get().loadLogs()` in the caller.
AfterLoad(p) ==
    IF pc[p].op = "loadLogs" THEN Return(p) ELSE startListeningBegin(p, pc[p].op)

loadLogs(p) ==
    /\ Begin(p, "loadLogs", "load")
    /\ UNCHANGED <<storeVars, chanVars, backVars>>
    /\ UNCHANGED <<viewVars, filteredLogs>>

loadLogsOk(p) ==
    /\ pc[p].op \in LoadOps /\ pc[p].at = "load"
    /\ logs' = loadLogsSet(logs, bLogs)
    /\ AfterLoad(p)
    /\ UNCHANGED <<isEnabled, unlistenFn, err, chanVars, backVars>>
    /\ UNCHANGED <<viewVars, filteredLogs>>

\* The catch of loadLogs: the caller goes on.
loadLogsFailPropagates(p) ==
    /\ pc[p].op \in LoadOps /\ pc[p].at = "load"
    /\ LogError(p)
    /\ Return(p)
    /\ UNCHANGED <<storeVars, chanVars, backVars>>
    /\ UNCHANGED <<viewVars, filteredLogs>>
loadLogsFail(p) ==
    /\ pc[p].op \in LoadOps /\ pc[p].at = "load"
    /\ LogError(p)
    /\ AfterLoad(p)
    /\ UNCHANGED <<storeVars, chanVars, backVars>>
    /\ UNCHANGED <<viewVars, filteredLogs>>

\* --------------------------------------------------------------- clearLogs
clearLogs(p) ==
    /\ Begin(p, "clearLogs", "invoke")
    /\ UNCHANGED <<storeVars, chanVars, backVars>>
    /\ UNCHANGED <<viewVars, filteredLogs>>

clearLogsOkLocalOnly(p) ==
    /\ pc[p] = At("clearLogs", "invoke")
    /\ logs' = <<>>
    /\ Return(p)
    /\ UNCHANGED <<isEnabled, unlistenFn, err, chanVars, backVars>>
    /\ UNCHANGED <<viewVars, filteredLogs>>
clearLogsOk(p) ==
    /\ pc[p] = At("clearLogs", "invoke")
    /\ bLogs' = <<>>
    /\ logs' = <<>>
    /\ Return(p)
    /\ UNCHANGED <<isEnabled, unlistenFn, err, chanVars, bEnabled, nextId>>
    /\ UNCHANGED <<viewVars, filteredLogs>>

\* invoke('clear_debug_console_logs') rejected: the catch of clearLogs.
clearLogsFailEmpties(p) ==
    /\ pc[p] = At("clearLogs", "invoke")
    /\ LogError(p)
    /\ logs' = <<>>
    /\ Return(p)
    /\ UNCHANGED <<isEnabled, unlistenFn, chanVars, backVars>>
    /\ UNCHANGED <<viewVars, filteredLogs>>
clearLogsFail(p) ==
    /\ pc[p] = At("clearLogs", "invoke")
    /\ LogError(p)
    /\ Return(p)
    /\ UNCHANGED <<storeVars, chanVars, backVars>>
    /\ UNCHANGED <<viewVars, filteredLogs>>

\* ---------------------------------------------------------- startListening
ListenOps == {"enable", "checkEnabled", "startListening"}

startListening(p) ==
    /\ Idle(p)
    /\ err' = [err EXCEPT ![p] = FALSE]
    /\ startListeningBegin(p, "startListening")
    /\ UNCHANGED <<storeVars, chanVars, backVars>>
    /\ UNCHANGED <<viewVars, filteredLogs>>

\* listen('log-event', ...) resolved: the registration is live and its
\* unlisten function is stored.
listenOk(p) ==
    /\ pc[p].op \in ListenOps /\ pc[p].at = "listen"
    /\ nextReg <= MaxReg
    /\ live' = live \cup {nextReg}
    /\ nextReg' = nextReg + 1
    /\ unlistenFn' = nextReg
    /\ Return(p)
    /\ UNCHANGED <<isEnabled, logs, err, unlistenCalls, chan, backVars>>
    /\ UNCHANGED <<viewVars, filteredLogs>>

\* listen('log-event', ...) rejected: the catch of startListening.
listenFailThrows(p) ==
    /\ pc[p].op \in ListenOps /\ pc[p].at = "listen"
    /\ pc' = [pc EXCEPT ![p] = IdlePc]
    /\ rejected' = [rejected EXCEPT ![p] = TRUE]
    /\ UNCHANGED <<storeVars, err, chanVars, backVars>>
    /\ UNCHANGED <<viewVars, filteredLogs>>
listenFail(p) ==
    /\ pc[p].op \in ListenOps /\ pc[p].at = "listen"
    /\ LogError(p)
    /\ Return(p)
    /\ UNCHANGED <<storeVars, chanVars, backVars>>
    /\ UNCHANGED <<viewVars, filteredLogs>>

\* stopListening called on its own (synchronous).
stopListeningCall ==
    /\ unlistenFn # NoHandle
    /\ stopListening
    /\ UNCHANGED <<isEnabled, logs, pc, err, rejected, nextReg, chan, backVars>>
    /\ UNCHANGED <<viewVars, filteredLogs>>

\* ------------------------------------------------------------ checkEnabled
checkEnabled(p) ==
    /\ Begin(p, "checkEnabled", "invoke")
    /\ UNCHANGED <<storeVars, chanVars, backVars>>
    /\ UNCHANGED <<viewVars, filteredLogs>>

checkEnabledOkNoSync(p) ==
    /\ pc[p] = At("checkEnabled", "invoke")
    /\ isEnabled' = bEnabled
    /\ Return(p)
    /\ UNCHANGED <<logs, unlistenFn, err, chanVars, backVars>>
    /\ UNCHANGED <<viewVars, filteredLogs>>
checkEnabledOk(p) ==
    /\ pc[p] = At("checkEnabled", "invoke")
    /\ isEnabled' = bEnabled
    /\ IF bEnabled THEN Goto(p, "load") ELSE Return(p)
    /\ UNCHANGED <<logs, unlistenFn, err, chanVars, backVars>>
    /\ UNCHANGED <<viewVars, filteredLogs>>

checkEnabledFail(p) ==
    /\ pc[p] = At("checkEnabled", "invoke")
    /\ LogError(p)
    /\ Return(p)
    /\ UNCHANGED <<storeVars, chanVars, backVars>>
    /\ UNCHANGED <<viewVars, filteredLogs>>

\* ------------------------------------------------------------------ addLog
\* addLog called on its own, not by the channel's listener.
addLogCall(r) ==
    /\ logs' = addLog(logs, r)
    /\ UNCHANGED <<isEnabled, unlistenFn, pc, err, rejected, chanVars, backVars>>
    /\ UNCHANGED <<viewVars, filteredLogs>>

\* ------------------------------------------------------- backend and channel
\* The backend records a log line and pushes it to the listeners registered
\* at that moment.
backendLog(r) ==
    /\ r = nextId
    /\ nextId' = nextId + 1
    /\ bLogs' = Append(bLogs, r)
    /\ IF live = {}
         THEN UNCHANGED chan
         ELSE /\ Len(chan) < MaxChan
              /\ chan' = Append(chan, [rec |-> r, to |-> live])
    /\ UNCHANGED <<storeVars, pc, err, rejected, live, nextReg, unlistenCalls,
                   bEnabled>>
    /\ UNCHANGED <<viewVars, filteredLogs>>

\* The oldest pushed event arrives: the callback of every listener it was
\* sent to that is still registered runs get().addLog(event.payload).
deliver ==
    /\ chan # <<>>
    /\ LET e == Head(chan)
           n == Cardinality(e.to \cap live)
       IN logs' = addLogTimes(logs, e.rec, n)
    /\ chan' = Tail(chan)
    /\ UNCHANGED <<isEnabled, unlistenFn, pc, err, rejected, live, nextReg,
                   unlistenCalls,
                   backVars>>
    /\ UNCHANGED <<viewVars, filteredLogs>>

\* -------------------------------------------------------------- view state
\* The level filters, search terms (texts as sequences of characters) and
\* flags the view-state actions are called with.
Filters ==
    {<<"ERROR", "WARN", "INFO">>, <<>>, <<"DEBUG">>, <<"INFO", "DEBUG", "ERROR">>}
Terms == {<<>>, <<"a", "b">>, <<"B">>}

\* What the view-state actions leave alone.
notViewVars == <<storeVars, pc, err, rejected, chanVars, backVars, filteredLogs>>

open ==
    /\ isOpen' = TRUE
    /\ UNCHANGED <<filter, searchTerm, autoScroll, notViewVars>>
close ==
    /\ isOpen' = FALSE
    /\ UNCHANGED <<filter, searchTerm, autoScroll, notViewVars>>
toggle ==
    /\ isOpen' = ~isOpen
    /\ UNCHANGED <<filter, searchTerm, autoScroll, notViewVars>>
setFilter(levels) ==
    /\ filter' = levels
    /\ UNCHANGED <<isOpen, searchTerm, autoScroll, notViewVars>>
setSearchTermResets(term) ==
    /\ searchTerm' = term
    /\ logs' = <<>>
    /\ UNCHANGED <<isOpen, filter, autoScroll, isEnabled, unlistenFn, pc, err,
                   rejected, chanVars, backVars, filteredLogs>>
setSearchTerm(term) ==
    /\ searchTerm' = term
    /\ UNCHANGED <<isOpen, filter, autoScroll, notViewVars>>
setAutoScroll(enabled) ==
    /\ autoScroll' = enabled
    /\ UNCHANGED <<isOpen, filter, searchTerm, notViewVars>>

\* ----------------------------------------------------- the console view
\* The level, target and message of the log record with id r (LogEntry):
\* sample records that differ in level and in the case of their letters.
LogEntry(r) ==
    CASE r % 3 = 1 ->
           [level |-> "ERROR", target |-> <<"A", "b">>, message |-> <<"b", "a">>]
      [] r % 3 = 2 ->
           [level |-> "DEBUG", target |-> <<"b">>, message |-> <<"A", "B">>]
      [] OTHER ->
           [level |-> "INFO", target |-> <<"a">>, message |-> <<"B">>]

\* String.prototype.toLowerCase, on the letters the samples use.
LowerChar(c) ==
    CASE c = "A" -> "a"
      [] c = "B" -> "b"
      [] OTHER -> c
toLowerCase(s) == [i \in 1..Len(s) |-> LowerChar(s[i])]
\* Array.prototype.includes
ArrayIncludes(a, x) == \E i \in 1..Len(a) : a[i] = x

\* The callback of logs.filter (lines 128-131) for the record with id r.
KeepLogCaseSensitive(r, levels, term) ==
    IF ~ArrayIncludes(levels, LogEntry(r).level)
      THEN FALSE
      ELSE IF /\ term # <<>>
              /\ ~Includes(LogEntry(r).message, term)
              /\ ~Includes(LogEntry(r).target, term)
        THEN FALSE
        ELSE TRUE
KeepLog(r, levels, term) ==
    IF ~ArrayIncludes(levels, LogEntry(r).level)
      THEN FALSE
      ELSE IF /\ term # <<>>
              /\ ~Includes(toLowerCase(LogEntry(r).message), toLowerCase(term))
              /\ ~Includes(toLowerCase(LogEntry(r).target), toLowerCase(term))
        THEN FALSE
        ELSE TRUE

\* Array.prototype.filter: a new array of the elements, from the i-th on,
\* for which the callback returns true, in their order.
RECURSIVE FilterFrom(_, _, _, _)
FilterFrom(ls, levels, term, i) ==
    IF i > Len(ls)
      THEN <<>>
      ELSE (IF KeepLog(ls[i], levels, term) THEN <<ls[i]>> ELSE <<>>)
           \o FilterFrom(ls, levels, term, i + 1)

\* The console view renders: it computes filteredLogs from the store.
render ==
    /\ filteredLogs' = FilterFrom(logs, filter, searchTerm, 1)
    /\ UNCHANGED <<storeVars, viewVars, pc, err, rejected, chanVars, backVars>>

\* ------------------------------------------------------ the gateway: request
\* What request() leaves alone: the debug-console store and its environment.
consoleVars ==
    <<storeVars, viewVars, filteredLogs, pc, err, rejected, chanVars, backVars,
      histVars>>

\* Line 203: the notification fires when more than the debounce window has
\* passed since the last firing.
AuthFiresAlways(t, last) == TRUE
AuthFiresAtOrAfter(t, last) == t - last >= AuthDebounceMs
AuthFires(t, last) == t - last > AuthDebounceMs

\* Lines 208-209: the failure made of a non-2xx response.  A body that does
\* not parse counts as {}; the error property of a null body cannot be read.
HttpFailure(status, body) ==
    LET parsed == JSONparse(body)
        errorData == IF parsed.ok THEN parsed.val ELSE JObj(<<>>)
    IN IF errorData.t \in {"null", "undefined"}
         THEN Throws(JTypeError("Cannot read properties of null (reading 'error')"))
         ELSE LET error == Get(errorData, "error")
              IN Throws(IF Truthy(error)
                          THEN error
                          ELSE JStr("HTTP Error " \o ToString(status)))

\* Lines 217-227: the result made of the text of a 2xx response.
TextResultParseThrows(text) ==
    IF text = ""
      THEN Returns(JNull)
      ELSE IF JSONparse(text).ok
             THEN Returns(JSONparse(text).val)
             ELSE Throws(JError("SyntaxError"))
TextResultEmptyAsText(text) ==
    IF JSONparse(text).ok THEN Returns(JSONparse(text).val) ELSE Returns(JStr(text))
TextResult(text) ==
    IF text = ""
      THEN Returns(JNull)
      ELSE IF JSONparse(text).ok
             THEN Returns(JSONparse(text).val)
             ELSE Returns(JStr(text))

\* request(cmd, args) up to its first await, in slot q.
request(q, cmd, args) ==
    /\ rq[q].at = "idle"
    /\ LET call == [IdleRequest EXCEPT !.cmd = cmd, !.args = args]
           mapping == MappingOf(cmd)
       IN rq' = [rq EXCEPT ![q] =
            IF isTauri
              THEN [call EXCEPT !.at = "invoke", !.wire = <<Native(cmd, args)>>]
            ELSE IF mapping.found = "none"
              THEN [call EXCEPT !.out =
                      Throws(JError("Command [" \o cmd \o "] not supported in Web mode."))]
            ELSE IF mapping.found = "inherited" /\ args.given /\ args.kv # <<>>
              THEN [call EXCEPT !.out =
                      Throws(JTypeError("Cannot read properties of undefined (reading 'includes')"))]
            ELSE [call EXCEPT !.at = "fetch",
                              !.wire = <<BuildRequest(mapping, args)>>]]
    /\ UNCHANGED <<isTauri, apiKey, now, lastAuthErrorTime, events>>

\* invoke(cmd, args) resolved with value v: request() returns it.
NativeResults == {JNull, JStr("ok")}
invokeOkNull(q, v) ==
    /\ rq[q].at = "invoke"
    /\ rq' = [rq EXCEPT ![q].at = "idle", ![q].answer = Returns(v),
                        ![q].out = Returns(JNull)]
    /\ UNCHANGED <<isTauri, apiKey, now, lastAuthErrorTime, events>>
invokeOk(q, v) ==
    /\ rq[q].at = "invoke"
    /\ rq' = [rq EXCEPT ![q].at = "idle", ![q].answer = Returns(v),
                        ![q].out = Returns(v)]
    /\ UNCHANGED <<isTauri, apiKey, now, lastAuthErrorTime, events>>

\* invoke(cmd, args) rejected: the catch logs the error and throws it again.
NativeFailure == JStr("native call failed")
invokeFailSwallowed(q) ==
    /\ rq[q].at = "invoke"
    /\ rq' = [rq EXCEPT ![q].at = "idle", ![q].answer = Throws(NativeFailure),
                        ![q].out = Returns(JNull)]
    /\ UNCHANGED <<isTauri, apiKey, now, lastAuthErrorTime, events>>
invokeFail(q) ==
    /\ rq[q].at = "invoke"
    /\ rq' = [rq EXCEPT ![q].at = "idle", ![q].answer = Throws(NativeFailure),
                        ![q].out = Throws(NativeFailure)]
    /\ UNCHANGED <<isTauri, apiKey, now, lastAuthErrorTime, events>>

\* fetch resolved with a response (lines 198-217, up to the next await): a
\* non-2xx response passes the 401 gate and its body is read as JSON; a 204
\* returns null; any other 2xx response has its text read.
fetchResponseAnyError(q, status, body) ==
    /\ rq[q].at = "fetch"
    /\ IF ~ResponseOk(status)
         THEN /\ IF ~isTauri /\ AuthFires(now, lastAuthErrorTime)
                   THEN /\ lastAuthErrorTime' = now
                        /\ events' = Append(events, now)
                   ELSE UNCHANGED <<lastAuthErrorTime, events>>
              /\ rq' = [rq EXCEPT ![q].at = "json",
                                  ![q].resp = [status |-> status, body |-> body]]
         ELSE /\ UNCHANGED <<lastAuthErrorTime, events>>
              /\ rq' = [rq EXCEPT
                          ![q].at = IF status = 204 THEN "idle" ELSE "text",
                          ![q].resp = [status |-> status, body |-> body],
                          ![q].out = IF status = 204 THEN Returns(JNull)
                                                     ELSE NoOutcome]
    /\ UNCHANGED <<isTauri, apiKey, now>>
fetchResponse(q, status, body) ==
    /\ rq[q].at = "fetch"
    /\ IF ~ResponseOk(status)
         THEN /\ IF ~isTauri /\ status = 401 /\ AuthFires(now, lastAuthErrorTime)
                   THEN /\ lastAuthErrorTime' = now
                        /\ events' = Append(events, now)
                   ELSE UNCHANGED <<lastAuthErrorTime, events>>
              /\ rq' = [rq EXCEPT ![q].at = "json",
                                  ![q].resp = [status |-> status, body |-> body]]
         ELSE /\ UNCHANGED <<lastAuthErrorTime, events>>
              /\ rq' = [rq EXCEPT
                          ![q].at = IF status = 204 THEN "idle" ELSE "text",
                          ![q].resp = [status |-> status, body |-> body],
                          ![q].out = IF status = 204 THEN Returns(JNull)
                                                     ELSE NoOutcome]
    /\ UNCHANGED <<isTauri, apiKey, now>>

\* fetch rejected (the network failed): the catch logs and throws again.
fetchFailRetry(q) ==
    /\ rq[q].at = "fetch"
    /\ rq' = [rq EXCEPT ![q].wire = IF Len(@) < 2 THEN @ \o @ ELSE @,
                        ![q].at = IF Len(rq[q].wire) < 2 THEN "fetch" ELSE "idle",
                        ![q].out = IF Len(rq[q].wire) < 2
                                     THEN NoOutcome
                                     ELSE Throws(JTypeError("Failed to fetch"))]
    /\ UNCHANGED <<isTauri, apiKey, now, lastAuthErrorTime, events>>
fetchFail(q) ==
    /\ rq[q].at = "fetch"
    /\ rq' = [rq EXCEPT ![q].at = "idle",
                        ![q].out = Throws(JTypeError("Failed to fetch"))]
    /\ UNCHANGED <<isTauri, apiKey, now, lastAuthErrorTime, events>>

\* response.json() of a non-2xx response settled: request() throws.
jsonDone(q) ==
    /\ rq[q].at = "json"
    /\ rq' = [rq EXCEPT ![q].at = "idle",
                        ![q].out = HttpFailure(rq[q].resp.status, rq[q].resp.body)]
    /\ UNCHANGED <<isTauri, apiKey, now, lastAuthErrorTime, events>>

\* response.text() of a 2xx response resolved: request() returns.
textDone(q) ==
    /\ rq[q].at = "text"
    /\ rq' = [rq EXCEPT ![q].at = "idle", ![q].out = TextResult(rq[q].resp.body)]
    /\ UNCHANGED <<isTauri, apiKey, now, lastAuthErrorTime, events>>

\* Time passes.
tick ==
    /\ now < StartTime + MaxTicks * Tick
    /\ now' = now + Tick
    /\ UNCHANGED <<isTauri, apiKey, lastAuthErrorTime, events, rq>>

\* ----------------------------------------------------------- specification
NoHist == UNCHANGED histVars
\* The gateway is not called.
NoReq == UNCHANGED reqVars

\* Calls in any interleaving: a call may start while others are suspended.
\* The history variables are not kept here.
Next ==
    \/ \E p \in Procs : enable(p) /\ NoHist /\ NoReq
    \/ \E p \in Procs : disable(p) /\ NoHist /\ NoReq
    \/ \E p \in Procs : checkEnabled(p) /\ NoHist /\ NoReq
    \/ \E p \in Procs : loadLogs(p) /\ NoHist /\ NoReq
    \/ \E p \in Procs : clearLogs(p) /\ NoHist /\ NoReq
    \/ \E p \in Procs : startListening(p) /\ NoHist /\ NoReq
    \/ \E p \in Procs : enableInvokeOk(p) /\ NoHist /\ NoReq
    \/ \E p \in Procs : enableInvokeFail(p) /\ NoHist /\ NoReq
    \/ \E p \in Procs : disableInvokeOk(p) /\ NoHist /\ NoReq
    \/ \E p \in Procs : disableInvokeFail(p) /\ NoHist /\ NoReq
    \/ \E p \in Procs : checkEnabledOk(p) /\ NoHist /\ NoReq
    \/ \E p \in Procs : checkEnabledFail(p) /\ NoHist /\ NoReq
    \/ \E p \in Procs : loadLogsOk(p) /\ NoHist /\ NoReq
    \/ \E p \in Procs : loadLogsFail(p) /\ NoHist /\ NoReq
    \/ \E p \in Procs : clearLogsOk(p) /\ NoHist /\ NoReq
    \/ \E p \in Procs : clearLogsFail(p) /\ NoHist /\ NoReq
    \/ \E p \in Procs : listenOk(p) /\ NoHist /\ NoReq
    \/ \E p \in Procs : listenFail(p) /\ NoHist /\ NoReq
    \/ stopListeningCall /\ NoHist /\ NoReq
    \/ \E r \in Records : addLogCall(r) /\ NoHist /\ NoReq
    \/ \E r \in Records : backendLog(r) /\ NoHist /\ NoReq
    \/ deliver /\ NoHist /\ NoReq

Spec == Init /\ [][Next]_vars

\* Only enable() is called, in any interleaving.
EnableNext ==
    \/ \E p \in Procs : enable(p) /\ NoHist /\ NoReq
    \/ \E p \in Procs : enableInvokeOk(p) /\ NoHist /\ NoReq
    \/ \E p \in Procs : enableInvokeFail(p) /\ NoHist /\ NoReq
    \/ \E p \in Procs : loadLogsOk(p) /\ NoHist /\ NoReq
    \/ \E p \in Procs : loadLogsFail(p) /\ NoHist /\ NoReq
    \/ \E p \in Procs : listenOk(p) /\ NoHist /\ NoReq
    \/ \E p \in Procs : listenFail(p) /\ NoHist /\ NoReq
    \/ \E r \in Records : backendLog(r) /\ NoHist /\ NoReq
    \/ deliver /\ NoHist /\ NoReq

EnableSpec == Init /\ [][EnableNext]_vars

\* Only enable() and disable() are called, in any interleaving.
ToggleNext ==
    \/ \E p \in Procs : enable(p) /\ NoHist /\ NoReq
    \/ \E p \in Procs : disable(p) /\ NoHist /\ NoReq
    \/ \E p \in Procs : enableInvokeOk(p) /\ NoHist /\ NoReq
    \/ \E p \in Procs : enableInvokeFail(p) /\ NoHist /\ NoReq
    \/ \E p \in Procs : disableInvokeOk(p) /\ NoHist /\ NoReq
    \/ \E p \in Procs : disableInvokeFail(p) /\ NoHist /\ NoReq
    \/ \E p \in Procs : loadLogsOk(p) /\ NoHist /\ NoReq
    \/ \E p \in Procs : loadLogsFail(p) /\ NoHist /\ NoReq
    \/ \E p \in Procs : listenOk(p) /\ NoHist /\ NoReq
    \/ \E p \in Procs : listenFail(p) /\ NoHist /\ NoReq
    \/ \E r \in Records : backendLog(r) /\ NoHist /\ NoReq
    \/ deliver /\ NoHist /\ NoReq

ToggleSpec == Init /\ [][ToggleNext]_vars

\* ------------------------------------------------- one call at a time
\* The calls are made one after the other by one caller (slot SeqProc): a
\* call starts only when the one before has returned.  Pushed events and the
\* synchronous stopListening / addLog still come at any moment.
SeqProc == CHOOSE p \in Procs : \A q \in Procs : p <= q

\* The buffer is set as a whole (loadLogs, clearLogs).
ObsSet ==
    /\ base' = logs'
    /\ delivered' = <<>>
    /\ oneSub' = TRUE
    /\ UNCHANGED <<pre, prevOp, quiet, cleared>>

\* addLog is called by something else than the channel's listener.
ObsAppend ==
    /\ oneSub' = FALSE
    /\ UNCHANGED <<pre, prevOp, quiet, base, delivered, cleared>>

\* The channel delivers its oldest event.
ObsDeliver ==
    /\ LET n == Cardinality(Head(chan).to \cap live)
       IN /\ delivered' = IF n = 0 THEN delivered
                                   ELSE Append(delivered, Head(chan).rec)
          /\ oneSub' = (oneSub /\ n <= 1)
    /\ UNCHANGED <<pre, prevOp, quiet, cleared>>
    /\ UNCHANGED base

\* Every operation, one call at a time; the history of the buffer (base,
\* delivered, oneSub) is kept.
BufferNext ==
    \/ enable(SeqProc) /\ NoHist /\ NoReq
    \/ disable(SeqProc) /\ NoHist /\ NoReq
    \/ checkEnabled(SeqProc) /\ NoHist /\ NoReq
    \/ loadLogs(SeqProc) /\ NoHist /\ NoReq
    \/ clearLogs(SeqProc) /\ NoHist /\ NoReq
    \/ startListening(SeqProc) /\ NoHist /\ NoReq
    \/ enableInvokeOk(SeqProc) /\ NoHist /\ NoReq
    \/ enableInvokeFail(SeqProc) /\ NoHist /\ NoReq
    \/ disableInvokeOk(SeqProc) /\ NoHist /\ NoReq
    \/ disableInvokeFail(SeqProc) /\ NoHist /\ NoReq
    \/ checkEnabledOk(SeqProc) /\ NoHist /\ NoReq
    \/ checkEnabledFail(SeqProc) /\ NoHist /\ NoReq
    \/ loadLogsOk(SeqProc) /\ ObsSet /\ NoReq
    \/ loadLogsFail(SeqProc) /\ NoHist /\ NoReq
    \/ clearLogsOk(SeqProc) /\ ObsSet /\ NoReq
    \/ clearLogsFail(SeqProc) /\ NoHist /\ NoReq
    \/ listenOk(SeqProc) /\ NoHist /\ NoReq
    \/ listenFail(SeqProc) /\ NoHist /\ NoReq
    \/ stopListeningCall /\ NoHist /\ NoReq
    \/ \E r \in Records : addLogCall(r) /\ ObsAppend /\ NoReq
    \/ \E r \in Records : backendLog(r) /\ NoHist /\ NoReq
    \/ deliver /\ ObsDeliver /\ NoReq

BufferSpec == Init /\ [][BufferNext]_vars

\* A call of operation o starts: the history keeps the store as the caller
\* sees it at that moment (pre) and the call that returned before (prevOp).
ObsCall(o) ==
    /\ pre' = [op |-> o, isEnabled |-> isEnabled, logs |-> logs,
               unlistenFn |-> unlistenFn]
    /\ prevOp' = [op |-> pre.op, err |-> err[SeqProc]]
    /\ quiet' = TRUE
    /\ UNCHANGED <<base, delivered, oneSub, cleared>>

\* addLog runs while the caller's call is suspended (or between calls).
ObsNoise ==
    /\ quiet' = (quiet /\ logs' = logs)
    /\ UNCHANGED <<pre, prevOp, base, delivered, oneSub, cleared>>

\* The caller turns the console on and off, one call at a time.
SeqNext ==
    \/ enable(SeqProc) /\ ObsCall("enable") /\ NoReq
    \/ disable(SeqProc) /\ ObsCall("disable") /\ NoReq
    \/ enableInvokeOk(SeqProc) /\ NoHist /\ NoReq
    \/ enableInvokeFail(SeqProc) /\ NoHist /\ NoReq
    \/ disableInvokeOk(SeqProc) /\ NoHist /\ NoReq
    \/ disableInvokeFail(SeqProc) /\ NoHist /\ NoReq
    \/ loadLogsOk(SeqProc) /\ NoHist /\ NoReq
    \/ loadLogsFail(SeqProc) /\ NoHist /\ NoReq
    \/ listenOk(SeqProc) /\ NoHist /\ NoReq
    \/ listenFail(SeqProc) /\ NoHist /\ NoReq
    \/ \E r \in Records : addLogCall(r) /\ ObsNoise /\ NoReq
    \/ \E r \in Records : backendLog(r) /\ NoHist /\ NoReq
    \/ deliver /\ ObsNoise /\ NoReq

SeqSpec == Init /\ [][SeqNext]_vars

\* A backend command and a channel registration either resolve or fail: the
\* caller's suspended call always gets its answer.
SeqResponse ==
    \/ enableInvokeOk(SeqProc) \/ enableInvokeFail(SeqProc)
    \/ disableInvokeOk(SeqProc) \/ disableInvokeFail(SeqProc)
    \/ loadLogsOk(SeqProc) \/ loadLogsFail(SeqProc)
    \/ listenOk(SeqProc) \/ listenFail(SeqProc)

FairSeqSpec == SeqSpec /\ WF_vars(SeqResponse /\ NoHist /\ NoReq)

\* The caller checks the backend's flag (as the console view does when it
\* is mounted) and turns the console off, one call at a time.
CheckNext ==
    \/ checkEnabled(SeqProc) /\ ObsCall("checkEnabled") /\ NoReq
    \/ disable(SeqProc) /\ ObsCall("disable") /\ NoReq
    \/ checkEnabledOk(SeqProc) /\ NoHist /\ NoReq
    \/ checkEnabledFail(SeqProc) /\ NoHist /\ NoReq
    \/ disableInvokeOk(SeqProc) /\ NoHist /\ NoReq
    \/ disableInvokeFail(SeqProc) /\ NoHist /\ NoReq
    \/ loadLogsOk(SeqProc) /\ NoHist /\ NoReq
    \/ loadLogsFail(SeqProc) /\ NoHist /\ NoReq
    \/ listenOk(SeqProc) /\ NoHist /\ NoReq
    \/ listenFail(SeqProc) /\ NoHist /\ NoReq
    \/ \E r \in Records : addLogCall(r) /\ ObsNoise /\ NoReq
    \/ \E r \in Records : backendLog(r) /\ NoHist /\ NoReq
    \/ deliver /\ ObsNoise /\ NoReq

CheckSpec == Init /\ [][CheckNext]_vars

\* clearLogs emptied the buffer: the history keeps the records it held.
ObsClear ==
    /\ cleared' = {logs[i] : i \in 1..Len(logs)}
    /\ base' = logs'
    /\ delivered' = <<>>
    /\ oneSub' = TRUE
    /\ UNCHANGED <<pre, prevOp, quiet>>

\* The caller loads and clears the log and subscribes to the channel, one
\* call at a time; every record in the buffer comes from the backend.
ClearNext ==
    \/ clearLogs(SeqProc) /\ ObsCall("clearLogs") /\ NoReq
    \/ loadLogs(SeqProc) /\ ObsCall("loadLogs") /\ NoReq
    \/ startListening(SeqProc) /\ ObsCall("startListening") /\ NoReq
    \/ clearLogsOk(SeqProc) /\ ObsClear /\ NoReq
    \/ clearLogsFail(SeqProc) /\ NoHist /\ NoReq
    \/ loadLogsOk(SeqProc) /\ ObsSet /\ NoReq
    \/ loadLogsFail(SeqProc) /\ NoHist /\ NoReq
    \/ listenOk(SeqProc) /\ NoHist /\ NoReq
    \/ listenFail(SeqProc) /\ NoHist /\ NoReq
    \/ \E r \in Records : backendLog(r) /\ NoHist /\ NoReq
    \/ deliver /\ ObsDeliver /\ NoReq

ClearSpec == Init /\ [][ClearNext]_vars

\* The view-state actions, called at any moment while the caller turns the
\* console on, the backend logs, the channel delivers and addLog is called.
ViewNext ==
    \/ open /\ NoHist /\ NoReq
    \/ close /\ NoHist /\ NoReq
    \/ toggle /\ NoHist /\ NoReq
    \/ \E levels \in Filters : setFilter(levels) /\ NoHist /\ NoReq
    \/ \E term \in Terms : setSearchTerm(term) /\ NoHist /\ NoReq
    \/ \E enabled \in BOOLEAN : setAutoScroll(enabled) /\ NoHist /\ NoReq
    \/ enable(SeqProc) /\ NoHist /\ NoReq
    \/ enableInvokeOk(SeqProc) /\ NoHist /\ NoReq
    \/ loadLogsOk(SeqProc) /\ NoHist /\ NoReq
    \/ listenOk(SeqProc) /\ NoHist /\ NoReq
    \/ \E r \in Records : addLogCall(r) /\ NoHist /\ NoReq
    \/ \E r \in Records : backendLog(r) /\ NoHist /\ NoReq
    \/ deliver /\ NoHist /\ NoReq

ViewSpec == Init /\ [][ViewNext]_vars

\* The console view renders at any moment while records are appended and
\* the level filter and the search term are set.
DisplayNext ==
    \/ \E r \in Records : addLogCall(r) /\ NoHist /\ NoReq
    \/ \E levels \in Filters : setFilter(levels) /\ NoHist /\ NoReq
    \/ \E term \in Terms : setSearchTerm(term) /\ NoHist /\ NoReq
    \/ render /\ NoHist /\ NoReq

DisplaySpec == Init /\ [][DisplayNext]_vars

\* ------------------------------------------------- the gateway: its specs
\* The history of the 401 gate: the time each 401 response was handled.
NoAuthLog == UNCHANGED authLog
ObsAuth(status) ==
    authLog' = IF status = 401 THEN Append(authLog, now) ELSE authLog

\* One caller of request(): a call starts when the one before has ended.
ReqOne == CHOOSE q \in ReqSlots : \A r \in ReqSlots : q <= r

\* request() called with any command name and args, one call at a time, in
\* native or in remote mode, with or without a stored key; every response.
ReqInit ==
    /\ StoreInit
    /\ ~bEnabled
    /\ isTauri \in BOOLEAN
    /\ apiKey \in ApiKeys
    /\ now = StartTime
    /\ lastAuthErrorTime = LastAuthErrorUnset
    /\ events = <<>>
    /\ rq = [q \in ReqSlots |-> IdleRequest]
    /\ authLog = <<>>

ReqNext ==
    \/ \E cmd \in Cmds, args \in ArgSets :
         request(ReqOne, cmd, args) /\ NoAuthLog /\ UNCHANGED consoleVars
    \/ \E v \in NativeResults :
         invokeOk(ReqOne, v) /\ NoAuthLog /\ UNCHANGED consoleVars
    \/ invokeFail(ReqOne) /\ NoAuthLog /\ UNCHANGED consoleVars
    \/ \E status \in Statuses, body \in Bodies :
         fetchResponse(ReqOne, status, body) /\ NoAuthLog /\ UNCHANGED consoleVars
    \/ fetchFail(ReqOne) /\ NoAuthLog /\ UNCHANGED consoleVars
    \/ jsonDone(ReqOne) /\ NoAuthLog /\ UNCHANGED consoleVars
    \/ textDone(ReqOne) /\ NoAuthLog /\ UNCHANGED consoleVars

ReqSpec == ReqInit /\ [][ReqNext]_vars

\* Remote mode, calls in flight together in every slot, answered in any
\* order while time passes; the responses are 200 and 401.
AuthStatuses == {200, 401}
AuthBodies == {BodyEmpty, BodyError, BodyNull}

AuthInit == StoreInit /\ ~bEnabled /\ GatewayInit /\ isTauri = FALSE

AuthNext ==
    \/ \E q \in ReqSlots :
         request(q, "list_accounts", NoArgs) /\ NoAuthLog /\ UNCHANGED consoleVars
    \/ \E q \in ReqSlots, status \in AuthStatuses, body \in AuthBodies :
         /\ status = 401 => Len(authLog) < MaxAuth
         /\ fetchResponse(q, status, body) /\ ObsAuth(status)
         /\ UNCHANGED consoleVars
    \/ \E q \in ReqSlots : jsonDone(q) /\ NoAuthLog /\ UNCHANGED consoleVars
    \/ \E q \in ReqSlots : textDone(q) /\ NoAuthLog /\ UNCHANGED consoleVars
    \/ tick /\ NoAuthLog /\ UNCHANGED consoleVars

AuthSpec == AuthInit /\ [][AuthNext]_vars

\* ------------------------------------------------------------------ claims
\* A pushed event is delivered: the channel hands over its oldest event.
DeliverStep == chan # <<>> /\ chan' = Tail(chan)
\* The listeners the oldest event in flight reaches.
Targets == Head(chan).to \cap live

\* C1: in every reachable state at most one push-channel registration is
\* live, and a live registration is the one stored as the handle.
C1_OneLiveHandle == Cardinality(live) <= 1 /\ live \subseteq {unlistenFn}

\* C2: when only enable() is called (twice, the second before the first has
\* finished, and no disable()), a pushed record reaches exactly one
\* subscription and is appended to the buffer exactly once.
C2_EnableTwiceOnce ==
    [][DeliverStep =>
         /\ Cardinality(Targets) = 1
         /\ logs' = LastN(logs \o <<Head(chan).rec>>, MAX_LOGS)]_vars

\* C3: in every reachable state the buffer holds at most MAX_LOGS records.
C3_Capacity == Len(logs) <= MAX_LOGS

\* addLog runs once with record r: called on its own, or by the one listener
\* a delivered event reaches.
AddLogStep(r) ==
    \/ addLogCall(r)
    \/ deliver /\ Head(chan).rec = r /\ Cardinality(Targets) = 1

\* C4: addLog on a buffer of exactly MAX_LOGS records drops the record at
\* index 0 and nothing else, keeps the order of the others and puts the new
\* record last; below MAX_LOGS it drops nothing and puts the record last.
C4_AddLogEvictsOldest ==
    [][\A r \in Records :
         AddLogStep(r) =>
           /\ Len(logs) = MAX_LOGS => logs' = Tail(logs) \o <<r>>
           /\ Len(logs) < MAX_LOGS => logs' = logs \o <<r>>]_vars

\* A state after the channel's listener appended to a buffer that held
\* exactly MAX_LOGS records (the snapshot plus the deliveries before).
C4_Witness ==
    /\ oneSub /\ delivered # <<>>
    /\ Len(base) <= MAX_LOGS
    /\ Len(base) + Len(delivered) = MAX_LOGS + 1
    /\ Len(logs) = MAX_LOGS

\* C5: the records delivered since the buffer was last set, each to one
\* listener, are in the buffer in delivery order, none reordered, none
\* dropped as a duplicate: the buffer is the last MAX_LOGS elements of the
\* buffer as set followed by the delivered records.
C5_DeliveryOrder ==
    (oneSub /\ delivered # <<>>) => logs = LastN(base \o delivered, MAX_LOGS)

\* A state where two records were delivered onto a loaded snapshot.
C5_Witness == oneSub /\ base # <<>> /\ Len(delivered) >= 2

\* A step of the caller's enable(): its start or one of its continuations.
EnableStep ==
    /\ pc'[SeqProc] # pc[SeqProc]
    /\ pc[SeqProc].op = "enable" \/ pc'[SeqProc].op = "enable"
\* The caller's latest call is op, and it has returned.
Returned(op) == pre.op = op /\ Idle(SeqProc)

\* C6 as stated: enable() called while a handle is stored is a no-op: it
\* issues no backend command (never suspends) and leaves the buffer, the
\* enabled flag and the handle unchanged.
C6_EnableNoOp ==
    [][(EnableStep /\ pre'.unlistenFn # NoHandle) =>
         /\ Idle(SeqProc)'
         /\ UNCHANGED <<isEnabled, logs, unlistenFn>>]_vars

\* C6 as amended: every step enable() takes while a handle is stored makes
\* no channel registration and leaves the handle as it is, and after the
\* snapshot fetch enable() returns without calling listen.
C6_EnableKeepsHandle ==
    [][(EnableStep /\ unlistenFn # NoHandle) =>
         /\ UNCHANGED <<unlistenFn, live, nextReg, unlistenCalls>>
         /\ pc[SeqProc].at = "load" => Idle(SeqProc)']_vars

\* enable() started with a handle stored, ran to its end without a failure
\* and replaced the buffer; the handle is the one that was stored.
C6_Witness ==
    /\ Returned("enable") /\ ~err[SeqProc] /\ quiet
    /\ pre.unlistenFn # NoHandle /\ unlistenFn = pre.unlistenFn
    /\ logs # pre.logs

\* C7: enable() started with no handle does, in this order, the backend
\* enable command (then isEnabled is set), the snapshot fetch (a fetched
\* snapshot replaces the buffer), one channel registration (the handle is
\* stored, it is the only live registration); and, every suspended step
\* getting its answer, enable() ends, without a logged failure only in
\* Listening with isEnabled true.
C7_EnableOrder ==
    /\ [][(EnableStep /\ pre'.unlistenFn = NoHandle) =>
            /\ Idle(SeqProc) => /\ pc'[SeqProc] = At("enable", "invoke")
                                 /\ UNCHANGED <<isEnabled, logs, unlistenFn, live>>
            /\ pc[SeqProc].at = "invoke" =>
                  IF err'[SeqProc]
                    THEN Idle(SeqProc)'
                    ELSE /\ pc'[SeqProc] = At("enable", "load")
                         /\ isEnabled' /\ bEnabled'
                         /\ UNCHANGED <<logs, unlistenFn, live>>
            /\ pc[SeqProc].at = "load" =>
                  /\ pc'[SeqProc] = At("enable", "listen")
                  /\ ~err'[SeqProc] => logs' = bLogs
                  /\ UNCHANGED <<isEnabled, unlistenFn, live>>
            /\ (pc[SeqProc].at = "listen" /\ ~err'[SeqProc]) =>
                  /\ Idle(SeqProc)'
                  /\ live = {} /\ Cardinality(live') = 1
                  /\ nextReg' = nextReg + 1
                  /\ unlistenFn' \in live'
                  /\ isEnabled'
                  /\ UNCHANGED logs]_vars
    /\ (pc[SeqProc] = At("enable", "invoke") /\ pre.unlistenFn = NoHandle)
         ~> /\ Returned("enable")
            /\ \/ err[SeqProc]
               \/ isEnabled /\ unlistenFn # NoHandle /\ live = {unlistenFn}

\* enable() started with no handle and a non-empty buffer, no step failed:
\* Listening, isEnabled true, the handle stored.
C7_Witness ==
    /\ Returned("enable") /\ ~err[SeqProc] /\ quiet
    /\ pre.unlistenFn = NoHandle /\ pre.logs # <<>> /\ ~pre.isEnabled
    /\ isEnabled /\ unlistenFn # NoHandle /\ live = {unlistenFn}

\* C8 as stated: if a step of enable() fails, then when enable() returns
\* the enabled flag and the buffer are as they were before the call and no
\* handle has been created.
C8_FailureRestores ==
    (Returned("enable") /\ err[SeqProc] /\ quiet) =>
        /\ isEnabled = pre.isEnabled
        /\ logs = pre.logs
        /\ unlistenFn = pre.unlistenFn

\* C8 as amended: a failing step changes nothing itself, and what the
\* steps before it did stays.  A failed backend enable command: enable()
\* returns with the flag, the buffer and the handle as before the call.  A
\* failed snapshot fetch: the buffer is kept, isEnabled is already true and
\* enable() goes on to the channel registration.  A failed registration: no
\* handle is created, isEnabled stays true.
C8_FailureKeepsEarlierSteps ==
    [][EnableStep =>
         /\ (pc[SeqProc].at = "invoke" /\ err'[SeqProc]) =>
               /\ Idle(SeqProc)'
               /\ UNCHANGED <<isEnabled, logs, unlistenFn, live, nextReg>>
               /\ quiet => /\ isEnabled = pre.isEnabled
                            /\ logs = pre.logs
                            /\ unlistenFn = pre.unlistenFn
         /\ (pc[SeqProc].at = "load" /\ err'[SeqProc]) =>
               /\ isEnabled /\ UNCHANGED <<isEnabled, logs, unlistenFn, live, nextReg>>
               /\ unlistenFn = NoHandle => pc'[SeqProc] = At("enable", "listen")
         /\ (pc[SeqProc].at = "listen" /\ nextReg' = nextReg) =>
               /\ Idle(SeqProc)' /\ err'[SeqProc]
               /\ isEnabled /\ unlistenFn = NoHandle
               /\ UNCHANGED <<isEnabled, logs, unlistenFn, live>>]_vars

\* enable() returned after a failure and the flag is not what it was.
C8_Witness ==
    /\ Returned("enable") /\ err[SeqProc] /\ quiet
    /\ isEnabled /\ ~pre.isEnabled

\* C9: disable() first issues the backend disable command and touches
\* nothing; when the command has succeeded, no handle is stored, isEnabled
\* is false, and the registration that was stored is released, once (no
\* registration is ever released twice); with no handle stored nothing is
\* released.
C9_DisableReleases ==
    /\ [][\A p \in Procs :
            /\ (Idle(p) /\ pc'[p].op = "disable") =>
                  /\ pc'[p].at = "invoke"
                  /\ UNCHANGED <<isEnabled, unlistenFn, live, unlistenCalls>>
            /\ (pc[p].op = "disable" /\ Idle(p)' /\ ~err'[p]) =>
                  /\ unlistenFn' = NoHandle
                  /\ ~isEnabled'
                  /\ ~bEnabled'
                  /\ live' = live \ {unlistenFn}
                  /\ \A r \in Regs :
                        unlistenCalls'[r] =
                          IF r = unlistenFn THEN 1 ELSE unlistenCalls[r]]_vars
    /\ [](\A r \in Regs : unlistenCalls[r] <= 1)

\* A handle was stored and a disable() released it.
C9_Witness ==
    /\ unlistenFn = NoHandle /\ ~isEnabled /\ ~bEnabled
    /\ \E r \in Regs : unlistenCalls[r] = 1 /\ r \notin live

\* C10: enable() after disable(): the snapshot the backend returns becomes
\* the buffer as it is, whatever the buffer held before; it is not added
\* to the old records.
C10_ReenableReplaces ==
    [][(EnableStep /\ pc[SeqProc].at = "load" /\ ~err'[SeqProc]
          /\ prevOp = [op |-> "disable", err |-> FALSE]) =>
         logs' = bLogs]_vars

\* disable() then enable() returned, both without failure; a record the
\* buffer held before is not in the snapshot and is gone.
C10_Witness ==
    /\ Returned("enable") /\ ~err[SeqProc] /\ quiet
    /\ prevOp = [op |-> "disable", err |-> FALSE]
    /\ logs # <<>> /\ logs = bLogs
    /\ \E i \in 1..Len(pre.logs) : \A j \in 1..Len(logs) : logs[j] # pre.logs[i]

\* A step of the caller's checkEnabled(): its start or a continuation.
CheckStep ==
    /\ pc'[SeqProc] # pc[SeqProc]
    /\ pc[SeqProc].op = "checkEnabled" \/ pc'[SeqProc].op = "checkEnabled"

\* C11: checkEnabled() started with no handle stored that reads the backend
\* flag as enabled sets isEnabled, then fetches the snapshot, which becomes
\* the buffer, then makes one channel registration, stored as the handle;
\* when it has returned without a failure, isEnabled is true, the buffer is
\* the snapshot it fetched and the one live registration is the handle.
C11_CheckEnabledResync ==
    /\ [][(CheckStep /\ pre'.unlistenFn = NoHandle) =>
            /\ (pc[SeqProc].at = "invoke" /\ ~err'[SeqProc] /\ bEnabled) =>
                  /\ pc'[SeqProc] = At("checkEnabled", "load")
                  /\ isEnabled'
                  /\ UNCHANGED <<logs, unlistenFn, live>>
            /\ (pc[SeqProc].at = "load" /\ ~err'[SeqProc]) =>
                  /\ pc'[SeqProc] = At("checkEnabled", "listen")
                  /\ logs' = bLogs
                  /\ UNCHANGED <<isEnabled, unlistenFn, live>>
            /\ (pc[SeqProc].at = "listen" /\ ~err'[SeqProc]) =>
                  /\ Idle(SeqProc)'
                  /\ live = {} /\ Cardinality(live') = 1
                  /\ nextReg' = nextReg + 1
                  /\ unlistenFn' \in live'
                  /\ UNCHANGED <<isEnabled, logs>>]_vars
    /\ []((/\ Returned("checkEnabled") /\ ~err[SeqProc] /\ quiet
           /\ pre.unlistenFn = NoHandle /\ isEnabled) =>
             /\ unlistenFn # NoHandle /\ live = {unlistenFn}
             /\ Len(logs) <= Len(bLogs)
             /\ logs = SubSeq(bLogs, 1, Len(logs)))

\* checkEnabled() started on the store as constructed (flag off, empty
\* buffer, no handle) and returned: flag on, the snapshot in the buffer,
\* one live registration stored.
C11_Witness ==
    /\ Returned("checkEnabled") /\ ~err[SeqProc] /\ quiet
    /\ pre.unlistenFn = NoHandle /\ ~pre.isEnabled /\ pre.logs = <<>>
    /\ isEnabled /\ logs # <<>> /\ logs = bLogs
    /\ unlistenFn # NoHandle /\ live = {unlistenFn}

\* C12: clearLogs() issues the backend clear command, once, and touches
\* nothing before the answer; when the command has succeeded the buffer and
\* the backend history are empty and clearLogs() has returned; a snapshot
\* fetched afterwards holds none of the records the buffer held when it was
\* emptied.
C12_ClearPurges ==
    [][pc'[SeqProc] # pc[SeqProc] =>
         /\ (Idle(SeqProc) /\ pc'[SeqProc].op = "clearLogs") =>
               /\ pc'[SeqProc].at = "invoke"
               /\ UNCHANGED <<logs, bLogs>>
         /\ pc[SeqProc].op = "clearLogs" =>
               /\ Idle(SeqProc)'
               /\ ~err'[SeqProc] => logs' = <<>> /\ bLogs' = <<>>
         /\ (pc[SeqProc].at = "load" /\ ~err'[SeqProc]) =>
               \A i \in 1..Len(logs') : logs'[i] \notin cleared]_vars

\* Records were cleared, and a snapshot with later records was loaded.
C12_Witness ==
    /\ Idle(SeqProc) /\ cleared # {}
    /\ base # <<>> /\ logs = base

\* C13: from a gate that never fired, two 401 responses handled 500 ms apart
\* dispatch exactly one 'abv-unauthorized' event, and two handled 2500 ms
\* apart dispatch two.
C13_TwoUnauthorized ==
    /\ (Len(authLog) = 2 /\ authLog[2] - authLog[1] = 500) =>
          events = <<authLog[1]>>
    /\ (Len(authLog) = 2 /\ authLog[2] - authLog[1] = 2500) =>
          events = <<authLog[1], authLog[2]>>

\* Two 401 responses 2500 ms apart, two events.
C13_Witness ==
    /\ Len(authLog) = 2 /\ authLog[2] - authLog[1] = 2500
    /\ Len(events) = 2

\* C14: whatever the number of 401 responses and the order in which the
\* calls in flight are answered, any two consecutive 'abv-unauthorized'
\* events are more than 2000 ms apart.
C14_OnePerWindow ==
    \A i \in 1..(Len(events) - 1) : events[i + 1] - events[i] > AuthDebounceMs

\* Both slots were answered 401, MaxAuth 401 responses were handled, some
\* of them within the window of an event, and two events were dispatched.
C14_Witness ==
    /\ \A q \in ReqSlots : rq[q].resp.status = 401
    /\ Len(authLog) = MaxAuth /\ Len(events) = 2
    /\ \E i \in 1..Len(authLog) : authLog[i] - events[1] \in 1..AuthDebounceMs

\* A call in slot q has ended after a response arrived.
Answered(q) == rq[q].at = "idle" /\ rq[q].resp # NoResponse
\* The error field of a body that parses to a value with such a field.
HasErrorField(body) ==
    JSONparse(body).ok /\ HasProp(JSONparse(body).val, "error")
ErrorField(body) == Get(JSONparse(body).val, "error")

\* C15: every call answered 401 fails to its caller with the HTTP error,
\* the body's error field or 'HTTP Error 401', whether the event was
\* dispatched or suppressed.
C15_UnauthorizedStillFails ==
    \A q \in ReqSlots :
        (Answered(q) /\ rq[q].resp.status = 401) =>
            /\ rq[q].out.kind = "throw"
            /\ \/ rq[q].out.val = JStr("HTTP Error 401")
               \/ /\ HasErrorField(rq[q].resp.body)
                  /\ rq[q].out.val = ErrorField(rq[q].resp.body)

\* C16: a call answered with a non-2xx status fails: with the body's error
\* field when the body parses and has one, with 'HTTP Error <status>'
\* otherwise.
C16_NonOkFails ==
    (Answered(ReqOne) /\ ~ResponseOk(rq[ReqOne].resp.status)) =>
        rq[ReqOne].out =
            Throws(IF HasErrorField(rq[ReqOne].resp.body)
                     THEN ErrorField(rq[ReqOne].resp.body)
                     ELSE JStr("HTTP Error " \o ToString(rq[ReqOne].resp.status)))

\* C17: a call answered 2xx with status 204, or 2xx with an empty body,
\* returns null.
C17_NoContentIsNull ==
    (/\ Answered(ReqOne) /\ ResponseOk(rq[ReqOne].resp.status)
     /\ rq[ReqOne].resp.status = 204 \/ rq[ReqOne].resp.body = "") =>
        rq[ReqOne].out = Returns(JNull)

\* A 200 response with an empty body was answered with null.
C17_Witness ==
    /\ Answered(ReqOne) /\ rq[ReqOne].resp = [status |-> 200, body |-> ""]
    /\ rq[ReqOne].out = Returns(JNull)

\* C18: a call answered 2xx (not 204) with a non-empty body returns the
\* parsed value when the body is valid JSON and the body text when it is
\* not; it does not fail.
C18_ParseFallback ==
    (/\ Answered(ReqOne) /\ ResponseOk(rq[ReqOne].resp.status)
     /\ rq[ReqOne].resp.status # 204 /\ rq[ReqOne].resp.body # "") =>
        rq[ReqOne].out =
            IF JSONparse(rq[ReqOne].resp.body).ok
              THEN Returns(JSONparse(rq[ReqOne].resp.body).val)
              ELSE Returns(JStr(rq[ReqOne].resp.body))

\* A 200 response with a body that is not JSON was answered with the text.
C18_Witness ==
    /\ Answered(ReqOne) /\ rq[ReqOne].resp = [status |-> 200, body |-> BodyPlain]
    /\ rq[ReqOne].out = Returns(JStr(BodyPlain))

\* C19: in remote mode a call with a command name that is not in the
\* registry has ended at once, failed with the unmapped-command error, and
\* has issued no HTTP request, whatever its args.
C19_UnmappedFails ==
    (~isTauri /\ rq[ReqOne].cmd # "" /\ rq[ReqOne].cmd \notin DOMAIN COMMAND_MAPPING) =>
        /\ rq[ReqOne].at = "idle"
        /\ rq[ReqOne].wire = <<>>
        /\ rq[ReqOne].out =
             Throws(JError("Command [" \o rq[ReqOne].cmd \o "] not supported in Web mode."))

\* C20: the path of an HTTP request issued for a command of the registry
\* holds no unresolved placeholder: no ':' is left in it (an encoded value
\* holds none).
C20_NoPlaceholderLeft ==
    \A i \in 1..Len(rq[ReqOne].wire) :
        (rq[ReqOne].wire[i].kind = "http" /\ rq[ReqOne].cmd \in DOMAIN COMMAND_MAPPING) =>
            ~Includes(rq[ReqOne].wire[i].url, <<":">>)

\* The caller's call was made in remote mode for a command of the registry
\* and its HTTP request was handed to fetch.
RemoteCall ==
    /\ ~isTauri
    /\ rq[ReqOne].cmd \in DOMAIN COMMAND_MAPPING
    /\ rq[ReqOne].wire # <<>>
\* That request, the command's descriptor, and the path after substitution.
Sent == rq[ReqOne].wire[1]
Verb == COMMAND_MAPPING[rq[ReqOne].cmd].method
Template == COMMAND_MAPPING[rq[ReqOne].cmd].url
SentPath == SubstitutePath(Template, rq[ReqOne].args)
\* The entries of the call's args whose value is neither null nor undefined.
Kept == SelectSeq(rq[ReqOne].args.kv, LAMBDA e : e[2].t \notin {"null", "undefined"})
\* `name=value` of an entry, and the entries of s from the i-th on joined
\* by `&`.
Pair(e) == FormEncode(e[1]) \o <<"=">> \o FormEncode(StringOf(e[2]))
RECURSIVE Joined(_, _)
Joined(s, i) ==
    IF i > Len(s)
      THEN <<>>
      ELSE (IF i > 1 THEN <<"&">> ELSE <<>>) \o Pair(s[i]) \o Joined(s, i + 1)

\* C21: the URL of a GET or DELETE request is the path followed, when some
\* args entry has a value that is neither null nor undefined, by '?' and
\* exactly those entries, each once, in args order; with args absent or no
\* such entry the URL has no '?': get_proxy_status with no args is
\* GET /api/proxy/status.
C21_QueryString ==
    (RemoteCall /\ Verb \in {"GET", "DELETE"}) =>
        /\ Sent.method = Verb
        /\ IF Kept = <<>>
             THEN Sent.url = SentPath /\ ~Includes(Sent.url, <<"?">>)
             ELSE Sent.url = SentPath \o <<"?">> \o Joined(Kept, 1)
        /\ (rq[ReqOne].cmd = "get_proxy_status" /\ ~rq[ReqOne].args.given) =>
              /\ Sent.method = "GET"
              /\ Sent.url = <<"/", "api", "/", "proxy", "/", "status">>

\* A GET request for args with an undefined value and a value with a space:
\* the query string holds the second entry only.
C21_Witness ==
    /\ RemoteCall /\ rq[ReqOne].cmd = "list_accounts"
    /\ Len(rq[ReqOne].args.kv) = 2 /\ Len(Kept) = 1
    /\ Sent.url = AccountsUrl \o <<"?", "q", "=", "a", "+", "b">>

\* C22: an args entry whose key is substituted in the path is still sent:
\* in the query string of a GET or DELETE request (when its value is
\* neither null nor undefined), in the body of a POST request (when its
\* value is not undefined); delete_account with {accountId: "42"} is
\* DELETE /api/accounts/42?accountId=42.
C22_ConsumedKeyStays ==
    RemoteCall =>
        /\ \A i \in 1..Len(rq[ReqOne].args.kv) :
              LET e == rq[ReqOne].args.kv[i]
              IN Includes(Template, <<":">> \o e[1]) =>
                   /\ (Verb \in {"GET", "DELETE"} /\ e[2].t \notin {"null", "undefined"}) =>
                         Includes(Sent.url, <<"?">>) /\ Includes(Sent.url, Pair(e))
                   /\ (Verb = "POST" /\ e[2].t # "undefined") =>
                         \E j \in 1..Len(Sent.body.kv) : Sent.body.kv[j] = e
        /\ (/\ rq[ReqOne].cmd = "delete_account"
            /\ rq[ReqOne].args = Args(<< <<KeyAccountId, AStr(<<"42">>)>> >>)) =>
              /\ Sent.method = "DELETE"
              /\ Sent.url = <<"/", "api", "/", "account", "s", "/", "42",
                              "?", "account", "Id", "=", "42">>

\* delete_account was called with {accountId: "42"}.
C22_Witness ==
    /\ RemoteCall /\ rq[ReqOne].cmd = "delete_account"
    /\ rq[ReqOne].args = Args(<< <<KeyAccountId, AStr(<<"42">>)>> >>)
    /\ Includes(Sent.url, <<"42", "?", "account", "Id", "=", "42">>)

\* C23: a POST request has no query string and carries args (its entries,
\* as JSON.stringify writes them) as its body, no body when args is absent;
\* a GET or DELETE request has no body.
C23_VerbPlacesArgs ==
    RemoteCall =>
        /\ Verb = "POST" =>
              /\ ~Includes(Sent.url, <<"?">>)
              /\ rq[ReqOne].args.given =>
                    /\ Sent.body.present
                    /\ Sent.body.kv =
                         SelectSeq(rq[ReqOne].args.kv, LAMBDA e : e[2].t # "undefined")
              /\ ~rq[ReqOne].args.given => Sent.body = NoBody
        /\ Verb \in {"GET", "DELETE"} => Sent.body = NoBody

\* A POST request with two args entries in its body and no query string.
C23_Witness ==
    /\ RemoteCall /\ Verb = "POST"
    /\ Len(rq[ReqOne].args.kv) = 2
    /\ Sent.body.present /\ Sent.body.kv = rq[ReqOne].args.kv
    /\ ~Includes(Sent.url, <<"?">>)

\* A header called name is among the headers h.
Named(h, name) == \E x \in h : x[1] = name

\* C24: every HTTP request carries Content-Type: application/json; with a
\* stored key it carries Authorization: Bearer <key> and x-api-key: <key>,
\* with none (or an empty one) it carries neither of the two.
C24_Headers ==
    \A i \in 1..Len(rq[ReqOne].wire) :
        LET w == rq[ReqOne].wire[i]
        IN w.kind = "http" =>
             /\ <<"Content-Type", <<"application/json">>>> \in w.headers
             /\ Truthy(apiKey) =>
                   /\ <<"Authorization", <<"Bearer ", apiKey.s>>>> \in w.headers
                   /\ <<"x-api-key", <<apiKey.s>>>> \in w.headers
                   /\ Cardinality(w.headers) = 3
             /\ ~Truthy(apiKey) =>
                   ~Named(w.headers, "Authorization") /\ ~Named(w.headers, "x-api-key")

\* An HTTP request was sent with a stored key: both headers carry it.
C24_Witness ==
    /\ RemoteCall /\ apiKey = JStr("secret")
    /\ <<"Authorization", <<"Bearer ", "secret">>>> \in Sent.headers
    /\ <<"x-api-key", <<"secret">>>> \in Sent.headers

\* C25: in native mode request(cmd, args) hands cmd and args as they are to
\* invoke, for every command name, and returns what invoke resolved with;
\* it makes no HTTP request, builds no headers from the stored key, and a
\* name that is not in the registry is not refused.
C25_NativeForwards ==
    (isTauri /\ rq[ReqOne].cmd # "") =>
        /\ rq[ReqOne].wire = <<Native(rq[ReqOne].cmd, rq[ReqOne].args)>>
        /\ rq[ReqOne].resp = NoResponse
        /\ rq[ReqOne].at = "idle" => rq[ReqOne].out.kind # "none"
        /\ rq[ReqOne].answer.kind = "return" => rq[ReqOne].out = rq[ReqOne].answer

\* A native call of a name that is not in the registry returned the value
\* invoke resolved with.
C25_Witness ==
    /\ isTauri /\ rq[ReqOne].cmd = "no_such_command" /\ rq[ReqOne].args.given
    /\ rq[ReqOne].at = "idle" /\ rq[ReqOne].out = Returns(JStr("ok"))

\* C26 as stated: when invoke rejects, request() fails with that failure
\* wrapped as a TransportError.
C26_FailureWrapped ==
    (isTauri /\ rq[ReqOne].at = "idle" /\ rq[ReqOne].answer.kind = "throw") =>
        /\ rq[ReqOne].out.kind = "throw"
        /\ rq[ReqOne].out.val.t = "TransportError"

\* C26 as amended: when invoke rejects, request() fails with the failure
\* invoke rejected with, as it is (not wrapped); it does not return a value.
C26_FailureRethrown ==
    (isTauri /\ rq[ReqOne].at = "idle" /\ rq[ReqOne].answer.kind = "throw") =>
        rq[ReqOne].out = rq[ReqOne].answer

\* A native call failed and request() threw the failure.
C26_Witness ==
    /\ isTauri /\ rq[ReqOne].at = "idle"
    /\ rq[ReqOne].answer = Throws(NativeFailure)
    /\ rq[ReqOne].out = Throws(NativeFailure)

\* C27: a request() call invokes a transport at most once: no step of a
\* call that is suspended adds an invocation, and a call whose transport
\* failed ends with the failure.
C27_NoRetry ==
    [][/\ Len(rq'[ReqOne].wire) <= 1
       /\ rq[ReqOne].at # "idle" => rq'[ReqOne].wire = rq[ReqOne].wire
       /\ (rq[ReqOne].at \in {"fetch", "invoke"} /\ rq'[ReqOne].resp = NoResponse
             /\ rq'[ReqOne].answer.kind # "return") =>
             /\ rq'[ReqOne].at = "idle"
             /\ rq'[ReqOne].out.kind = "throw"]_vars

\* fetch rejected: the call has ended, failed, after one HTTP request.
C27_Witness ==
    /\ ~isTauri /\ rq[ReqOne].at = "idle" /\ Len(rq[ReqOne].wire) = 1
    /\ rq[ReqOne].resp = NoResponse
    /\ rq[ReqOne].out = Throws(JTypeError("Failed to fetch"))

\* C28: with enable() and disable() called in any interleaving, whenever
\* isEnabled is false and no call is in flight, no channel registration is
\* live.
C28_DisabledNotListening ==
    (~isEnabled /\ \A p \in Procs : Idle(p)) => live = {}

\* C29: a handled 401 response dispatches the event exactly when no event
\* was dispatched before or more than 2000 ms have passed since the last
\* one dispatched (at exactly 2000 ms it does not); then the timestamp is
\* the time of this event; a suppressed 401 leaves the timestamp as it is,
\* so the timestamp is always the time of the last event dispatched.
C29_WindowFromLastFiring ==
    /\ [][Len(authLog') # Len(authLog) =>
            IF events = <<>> \/ now - events[Len(events)] > AuthDebounceMs
              THEN events' = Append(events, now) /\ lastAuthErrorTime' = now
              ELSE UNCHANGED <<events, lastAuthErrorTime>>]_vars
    /\ [](events # <<>> => lastAuthErrorTime = events[Len(events)])

\* A 401 exactly 2000 ms after the first event was suppressed, and one
\* 2500 ms after the first event (500 ms after the suppressed one) fired.
C29_Witness ==
    /\ Len(authLog) = 3
    /\ authLog[2] - authLog[1] = 2000 /\ authLog[3] - authLog[1] = 2500
    /\ events = <<authLog[1], authLog[3]>>

\* C30: a step dispatches the event or changes the timestamp only if it is
\* the handling of a 401 response in remote mode: no other response, no
\* network failure, no unmapped command and no native call does.
C30_OnlyUnauthorizedTouchesGate ==
    [][(events' # events \/ lastAuthErrorTime' # lastAuthErrorTime) =>
         /\ ~isTauri
         /\ rq[ReqOne].at = "fetch"
         /\ rq'[ReqOne].resp.status = 401]_vars

\* A call answered 500 has ended and the gate is as it was at the start.
C30_Witness ==
    /\ Answered(ReqOne) /\ rq[ReqOne].resp.status = 500
    /\ events = <<>> /\ lastAuthErrorTime = LastAuthErrorUnset

\* C31: when the backend disable command fails, disable() returns with a
\* logged failure and that step changes neither the enabled flag nor the
\* handle nor the registration (it stays live, its unlisten is not called):
\* flag and handle are as they were when disable() was called.
C31_DisableFailureKeeps ==
    [][(pc[SeqProc] = At("disable", "invoke") /\ err'[SeqProc]) =>
         /\ Idle(SeqProc)'
         /\ UNCHANGED <<isEnabled, unlistenFn, live, unlistenCalls>>
         /\ isEnabled' = pre.isEnabled
         /\ unlistenFn' = pre.unlistenFn]_vars

\* disable() was called while listening with the flag on, its command
\* failed and it returned: the flag is on and the registration is live.
C31_Witness ==
    /\ Returned("disable") /\ err[SeqProc]
    /\ pre.isEnabled /\ pre.unlistenFn # NoHandle
    /\ isEnabled /\ unlistenFn = pre.unlistenFn /\ unlistenFn \in live
    /\ unlistenCalls[unlistenFn] = 0

\* C32: when the backend clear command fails, clearLogs() returns with a
\* logged failure and the buffer is not changed by it; when the snapshot
\* fetch fails, loadLogs() returns with a logged failure and the buffer is
\* not changed by it.
C32_FailureKeepsBuffer ==
    [][/\ (pc[SeqProc] = At("clearLogs", "invoke") /\ err'[SeqProc]) =>
             /\ Idle(SeqProc)'
             /\ logs' = logs /\ UNCHANGED <<base, cleared>>
       /\ (pc[SeqProc] = At("loadLogs", "load") /\ err'[SeqProc]) =>
             /\ Idle(SeqProc)'
             /\ logs' = logs /\ UNCHANGED <<base, cleared>>]_vars

\* clearLogs() failed, then loadLogs() failed: the buffer still holds its
\* records, and they are not the snapshot the backend would have returned.
C32_Witness ==
    /\ Returned("loadLogs") /\ err[SeqProc]
    /\ prevOp = [op |-> "clearLogs", err |-> TRUE]
    /\ logs # <<>> /\ logs = pre.logs /\ logs # bLogs

\* C33: enable, disable, loadLogs, clearLogs, startListening and
\* checkEnabled never throw to their caller: whenever a backend command or
\* the channel registration fails the operation's catch logs the failure,
\* and the operation returns or goes on; a failed snapshot fetch inside
\* enable or checkEnabled does not end the caller, which goes on to
\* startListening.
C33_NoFailurePropagates ==
    /\ [](\A p \in Procs : ~rejected[p])
    /\ [][\A p \in Procs :
            (pc'[p] # pc[p] /\ ~Idle(p) /\ err'[p]) =>
               /\ ~rejected'[p]
               /\ IF pc[p].at = "load" /\ pc[p].op # "loadLogs"
                    THEN IF unlistenFn = NoHandle
                           THEN pc'[p] = At(pc[p].op, "listen")
                           ELSE Idle(p)'
                    ELSE Idle(p)']_vars

\* Calls in every slot have failed and returned; a registration failed
\* after the flag was set (isEnabled true, no handle, nothing live).
C33_Witness ==
    /\ \A p \in Procs : Idle(p) /\ err[p] /\ ~rejected[p]
    /\ isEnabled /\ unlistenFn = NoHandle /\ live = {}

\* The end of the placeholder that starts at url[i] = ":": the index of the
\* next "/" after it, or one past the end of the url.
PlaceholderEnd(url, i) ==
    CHOOSE j \in (i + 1)..(Len(url) + 1) :
        /\ j = Len(url) + 1 \/ url[j] = "/"
        /\ \A k \in (i + 1)..(j - 1) : url[k] # "/"
\* The template from its i-th piece on, every placeholder whose name is a
\* key of the args replaced by the encoded text of that key's value, every
\* other piece kept.
RECURSIVE OwnKeyPath(_, _, _)
OwnKeyPath(url, kv, i) ==
    IF i > Len(url)
      THEN <<>>
      ELSE IF url[i] = ":"
        THEN LET j == PlaceholderEnd(url, i)
                 name == SubSeq(url, i + 1, j - 1)
                 own == {k \in 1..Len(kv) : kv[k][1] = name}
             IN (IF own = {}
                   THEN SubSeq(url, i, j - 1)
                   ELSE encodeURIComponent(StringOf(kv[CHOOSE k \in own : TRUE][2])))
                \o OwnKeyPath(url, kv, j)
        ELSE <<url[i]>> \o OwnKeyPath(url, kv, i + 1)

\* C34: the path of the HTTP request is the command's template with each
\* placeholder replaced by the value of the argument whose key is the
\* placeholder's name, and nothing else altered: a key that is a proper
\* prefix of a placeholder's name ('account' against ':accountId') leaves
\* the path as it is.
C34_OwnKeyOnly ==
    RemoteCall =>
        LET path == OwnKeyPath(Template, rq[ReqOne].args.kv, 1)
        IN /\ Len(Sent.url) >= Len(path)
           /\ SubSeq(Sent.url, 1, Len(path)) = path
           /\ Len(Sent.url) > Len(path) => Sent.url[Len(path) + 1] = "?"

\* C35: open, close, toggle, setFilter, setSearchTerm and setAutoScroll
\* (the steps that change the view state) leave the buffer, the enabled
\* flag and the handle unchanged; addLog changes the buffer and nothing
\* else of the store: neither the flag nor the handle nor the view state.
C35_FrameOfViewAndAddLog ==
    [][/\ viewVars' # viewVars =>
             UNCHANGED <<logs, isEnabled, unlistenFn, live, pc>>
       /\ \A r \in Records :
             addLogCall(r) =>
                /\ logs' = addLog(logs, r)
                /\ UNCHANGED <<isEnabled, unlistenFn, isOpen, filter,
                               searchTerm, autoScroll>>]_vars

\* Every view-state field was changed while the console was listening with
\* records in its buffer, one of them put there by addLog itself (the
\* backend has not produced it): buffer, flag and handle are still there.
C35_Witness ==
    /\ isOpen /\ ~autoScroll /\ searchTerm # <<>>
    /\ filter # <<"ERROR", "WARN", "INFO">>
    /\ isEnabled /\ unlistenFn # NoHandle /\ unlistenFn \in live
    /\ Len(logs) = MAX_LOGS
    /\ \E i \in 1..Len(logs) : logs[i] >= nextId

\* Two characters are the same letter, whatever their case.
SameLetter(a, b) ==
    a = b \/ {a, b} = {"a", "A"} \/ {a, b} = {"b", "B"}
\* Text s contains text t, ignoring case.
ContainsIgnoringCase(s, t) ==
    \E i \in 1..(Len(s) - Len(t) + 1) :
        \A k \in 1..Len(t) : SameLetter(s[i + k - 1], t[k])
\* The record with id r is to be displayed under the store's filter and
\* search term.
Shown(r) ==
    /\ LogEntry(r).level \in {filter[i] : i \in 1..Len(filter)}
    /\ searchTerm # <<>> =>
          \/ ContainsIgnoringCase(LogEntry(r).message, searchTerm)
          \/ ContainsIgnoringCase(LogEntry(r).target, searchTerm)
\* List d is the subsequence of the buffer, in buffer order, of exactly the
\* positions whose record is to be displayed.
IsShownSubsequence(d) ==
    \E f \in [1..Len(d) -> 1..Len(logs)] :
        /\ \A j, k \in 1..Len(d) : j < k => f[j] < f[k]
        /\ \A k \in 1..Len(d) : d[k] = logs[f[k]]
        /\ {f[k] : k \in 1..Len(d)} = {i \in 1..Len(logs) : Shown(logs[i])}

\* C36: a render of the console view computes, as the displayed list, the
\* subsequence of the buffer, in buffer order, of exactly the records whose
\* level is in the level filter and, when a search term is set, whose
\* message or target contains the term ignoring case; and it changes
\* neither the buffer nor the filter nor the search term.
C36_FilterReadOnlyInOrder ==
    [][(render \/ filteredLogs' # filteredLogs) =>
         /\ IsShownSubsequence(filteredLogs')
         /\ UNCHANGED <<logs, filter, searchTerm, isEnabled, unlistenFn>>]_vars

\* The buffer holds a DEBUG record and then an ERROR record; with these
\* levels in the filter and the term "ab" set, both are displayed, in
\* buffer order: the first matches by its message "AB", the second by its
\* target "Ab".
C36_Witness ==
    /\ logs = <<2, 1>>
    /\ filter = <<"INFO", "DEBUG", "ERROR">>
    /\ searchTerm = <<"a", "b">>
    /\ filteredLogs = <<2, 1>>

====
